---------------------------- MODULE Spec2Model ----------------------------
(***************************************************************************)
(* CacheGrid: the engine's LRUCache (src/cachegrid/core/engine.py, driven  *)
(* through CacheEngine) and AdvancedStorage with its three eviction        *)
(* policies (src/cachegrid/core/storage.py).                               *)
(*                                                                         *)
(* The two caches are independent objects: the engine never instantiates   *)
(* AdvancedStorage.  A run constructs one of them (variable target) and    *)
(* drives it with get/set/delete/clear, clock ticks and, for the engine,   *)
(* start/stop and the background expirer.  A run of the client SDK         *)
(* (src/cachegrid/client/python_client.py) is a run of its own: one        *)
(* CacheGridClient against hosts that answer, fail or time out; and so is  *)
(* a run of several clients that increment one key.                        *)
(*                                                                         *)
(* Python values.  None is NoneVal.  Every other cached value n > 0 is the *)
(* ASCII string of n characters, so len(str(value).encode('utf-8')) = n.   *)
(* An Optional[float] is <<>> (None) or <<x>>.  time.time() is the integer *)
(* clock now, which moves only between operations.                         *)
(***************************************************************************)
EXTENDS Integers, Sequences, FiniteSets, TLC

\* ---------------------------------------------------------------- bounds
MaxSize == 2
\* largest max_size a cache is constructed with

MaxMemoryMb == 1
\* max_memory_mb of AdvancedStorage

MaxSteps == 5
\* length of a run: operations that reach the cache, start/stop calls, clock ticks

StorageSteps == MaxSteps - 1
\* the same for AdvancedStorage, which has no start() to spend a step on

\* ---------------------------------------------------------------- inputs
None == <<>>
Some(x) == <<x>>
NoneVal == 0

max_memory_bytes == MaxMemoryMb * 1024 * 1024

Half == max_memory_bytes \div 2
\* two such values do not fit in max_memory_bytes together

Huge == max_memory_bytes
\* a value whose entry alone exceeds max_memory_bytes

Keys == {"", "a", "b"}

\* the (value, ttl) pairs the callers store
SetInputs == {<<NoneVal, None>>, <<Half, Some(1)>>}

\* Python's order on the keys (str comparison), used by the heaps' tuples
KeyRank(k) == CASE k = "" -> 0 [] k = "a" -> 1 [] k = "b" -> 2 [] OTHER -> 3

KeyLen(k) == Len(k)
ValueLen(v) == IF v = NoneVal THEN 4 ELSE v
\* len(str(None)) = 4

VARIABLES
  target,          \* "engine" (CacheEngine + LRUCache) or "storage" (AdvancedStorage)
  now,             \* time.time()
  steps,           \* operations started so far
  ret,             \* outcome of the operation that returned last
  \* LRUCache / CacheEngine
  max_size,        \* max_size of the cache under test
  cache,           \* LRUCache._cache: OrderedDict, oldest first
  stats,           \* LRUCache.stats
  lru_running,     \* LRUCache._running
  cleanup_task,    \* LRUCache._cleanup_task
  orphans,         \* expirer tasks no longer referenced by _cleanup_task
  engine_running,  \* CacheEngine._running
  start_time,      \* CacheEngine._start_time
  stop_pc,         \* a stop() that awaits its cancelled task
  \* AdvancedStorage
  policy,          \* "LRU", "LFU" or "TTL"
  storage,         \* AdvancedStorage.storage: key -> StorageItem
  tag_index,       \* AdvancedStorage.tag_index: tag -> set of keys
  pol,             \* eviction policy state
  metrics,         \* total_memory_bytes, access_count, hit/miss/eviction counts
  pc,              \* "idle", or "set" inside set's make-space loop
  pending,         \* the item a running set() is about to store
  \* CacheGridClient
  config,          \* CacheGridClient.config: hosts, max_retries
  session,         \* CacheGridClient.session is not None
  health_status,   \* CacheGridClient._health_status: host -> bool
  host_index,      \* CacheGridClient._current_host_index
  net,             \* what each host does with the next request sent to it
  req,             \* the _request in progress
  \* CacheGridClient.increment
  server,          \* the value the server holds under the counter's key
  incr,            \* each client's increment() in progress
  expected,        \* initial value plus the deltas of the increments made (history)
  \* history
  hist             \* what the callers did (history variable)

vars == <<target, now, steps, ret, max_size, cache, stats, lru_running, cleanup_task,
          orphans, engine_running, start_time, stop_pc, policy, storage, tag_index,
          pol, metrics, pc, pending, config, session, health_status, host_index,
          net, req, server, incr, expected, hist>>

incrVars == <<server, incr, expected>>
clientVars == <<config, session, health_status, host_index, net, req, incrVars>>

engineVars == <<max_size, cache, stats, lru_running, cleanup_task, orphans,
                engine_running, start_time, stop_pc>>
storageVars == <<policy, storage, tag_index, pol, metrics, pc, pending>>


\* ------------------------------------------------------------ sequences
RECURSIVE SumSeq(_)
SumSeq(q) == IF q = <<>> THEN 0 ELSE Head(q) + SumSeq(Tail(q))

RECURSIVE SumSet(_, _)
SumSet(f, S) == IF S = {} THEN 0
                ELSE LET x == CHOOSE y \in S : TRUE IN f[x] + SumSet(f, S \ {x})

RemoveAt(q, i) == SubSeq(q, 1, i - 1) \o SubSeq(q, i + 1, Len(q))
SelectKeys(q, S) == SelectSeq(q, LAMBDA k : k \in S)
Range(q) == {q[i] : i \in 1..Len(q)}

\* ----------------------------------------------------- results, history
\* report: the dict that stats() or health_check() returned, if the call was one
NoRet == [op |-> "none", key |-> "", val |-> NoneVal, ok |-> FALSE, hit |-> FALSE,
          err |-> "", report |-> None]
Ret(op, k, val, ok, hit) ==
  [op |-> op, key |-> k, val |-> val, ok |-> ok, hit |-> hit, err |-> "",
   report |-> None]
Raised(op, k) == [NoRet EXCEPT !.op = op, !.key = k, !.err = "RuntimeError"]

NoWrite == [st |-> "none", ok |-> FALSE, val |-> NoneVal, at |-> 0, ttl |-> None,
            dropped |-> ""]

\* History of the calls, kept beside the program and never read by it.
\*   written[k]  the last set(k, .) or delete(k) that returned: which (st), what it
\*               returned (ok), for a set its value, time and ttl; dropped says
\*               how k left the cache since, if not by a call on k: "evicted" by
\*               a set, "clear", "expired" by the expirer
\*   recency     the stored keys, by their most recent successful get or set
\*   snap        inside AdvancedStorage.set: the store as it was at the call
\*   gets        get lookups attempted
\*   inserts     sets that stored a key absent at the call
\*   removed     entries removed by delete, clear, expiry or a refused replacement
\*   calls       cache operations that returned
\*   clears      calls of clear() among them
\*   inserted    the stored keys, by the set that stored their present entry
\* before/after: the keys stored before and after the operation.
HistAfter(h, op, k, v, ttl, ok, hit, t, before, after) ==
  LET gone == before \ after
      w1 == [j \in Keys |->
               IF j = k /\ op = "set"
                 THEN [st |-> "set", ok |-> ok, val |-> v, at |-> t, ttl |-> ttl,
                       dropped |-> ""]
               ELSE IF j = k /\ op = "delete" THEN [NoWrite EXCEPT !.st = "del", !.ok = ok]
               ELSE IF j \in gone /\ ~(j = k /\ op = "get")
                 THEN [h.written[j] EXCEPT
                         !.dropped = CASE op = "set" -> "evicted"
                                       [] op = "clear" -> "clear"
                                       [] op = "expire" -> "expired"
                                       [] OTHER -> "lost"]
               ELSE h.written[j]]
      touched == (op = "get" /\ hit) \/ (op = "set" /\ ok)
      r0 == SelectKeys(h.recency, after \ (IF touched THEN {k} ELSE {}))
      r1 == IF touched /\ k \in after THEN Append(r0, k) ELSE r0
      stored == op = "set" /\ ok /\ k \in after
      i0 == SelectKeys(h.inserted, after \ (IF stored THEN {k} ELSE {}))
  IN [written |-> w1,
      recency |-> r1,
      snap |-> None,
      gets |-> h.gets + (IF op = "get" THEN 1 ELSE 0),
      inserts |-> h.inserts + (IF op = "set" /\ ok /\ k \notin before THEN 1 ELSE 0),
      removed |-> h.removed + (IF op = "set" THEN Cardinality(gone \cap {k})
                               ELSE Cardinality(gone)),
      calls |-> h.calls + (IF op = "expire" THEN 0 ELSE 1),
      clears |-> h.clears + (IF op = "clear" THEN 1 ELSE 0),
      inserted |-> IF stored THEN Append(i0, k) ELSE i0]

\* ------------------------------------------------- engine.py: CacheItem
CacheItem(k, v, t, ttl) ==
  [key |-> k, value |-> v, created_at |-> t, ttl |-> ttl, access_count |-> 0,
   last_accessed |-> t]

\* variant: the ttl is taken one second too long
is_expired_late(item, t) ==
  IF item.ttl = None THEN FALSE ELSE t > item.created_at + item.ttl[1] + 1

\* CacheItem.is_expired / StorageItem.is_expired at time.time() = t
is_expired(item, t) ==
  IF item.ttl = None THEN FALSE ELSE t > item.created_at + item.ttl[1]

\* ------------------------------------------------- engine.py: LRUCache
CacheKeys(c) == {c[i].key : i \in 1..Len(c)}
IndexOf(c, k) == CHOOSE i \in 1..Len(c) : c[i].key = k

CacheStats(ms) ==
  [hits |-> 0, misses |-> 0, sets |-> 0, deletes |-> 0, evictions |-> 0,
   expired_items |-> 0, current_size |-> 0, max_size |-> ms, memory_usage_bytes |-> 0]

\* CacheStats.hit_ratio: the fraction hits / total as <<numerator, denominator>>,
\* and 0.0 as <<0, 1>> when there was no lookup
hit_ratio(s) ==
  LET total == s.hits + s.misses
  IN IF total > 0 THEN <<s.hits, total>> ELSE <<0, 1>>

_update_memory_usage(c, s) ==
  [s EXCEPT !.memory_usage_bytes =
     SumSeq([i \in 1..Len(c) |-> KeyLen(c[i].key) + ValueLen(c[i].value) + 100])]

\* dataclasses.asdict(self.stats): the fields of CacheStats; the properties
\* hit_ratio and memory_usage_mb are not fields
asdict(s) == s

\* LRUCache.get_stats
get_stats(c, s) ==
  LET s1 == _update_memory_usage(c, s)
  IN [stats |-> s1, report |-> asdict(s1)]

\* variant: the eviction is counted and the entry stays
_evict_lru_keeps_entry(c, s) ==
  IF c # <<>>
    THEN [cache |-> c,
          stats |-> [s EXCEPT !.evictions = @ + 1, !.current_size = @ - 1]]
    ELSE [cache |-> c, stats |-> s]

\* variant: the entry goes and stats.evictions is not counted
_evict_lru_uncounted(c, s) ==
  IF c # <<>>
    THEN [cache |-> Tail(c), stats |-> [s EXCEPT !.current_size = @ - 1]]
    ELSE [cache |-> c, stats |-> s]

_evict_lru(c, s) ==
  IF c # <<>>
    THEN [cache |-> Tail(c),
          stats |-> [s EXCEPT !.evictions = @ + 1, !.current_size = @ - 1]]
    ELSE [cache |-> c, stats |-> s]

\* variant: a get that finds its entry expired counts no miss
LRUGet_expired_uncounted(c, s, k, t) ==
  IF k \notin CacheKeys(c)
    THEN [cache |-> c, stats |-> [s EXCEPT !.misses = @ + 1],
          val |-> NoneVal, hit |-> FALSE]
    ELSE LET i == IndexOf(c, k)
             item == c[i]
         IN IF is_expired(item, t)
              THEN [cache |-> RemoveAt(c, i),
                    stats |-> [s EXCEPT !.expired_items = @ + 1, !.current_size = @ - 1],
                    val |-> NoneVal, hit |-> FALSE]
              ELSE [cache |-> Append(RemoveAt(c, i),
                                     [item EXCEPT !.last_accessed = t,
                                                  !.access_count = @ + 1]),
                    stats |-> [s EXCEPT !.hits = @ + 1],
                    val |-> item.value, hit |-> TRUE]

\* variant: a hit restarts the entry's time to live
LRUGet_refreshes_ttl(c, s, k, t) ==
  IF k \notin CacheKeys(c)
    THEN [cache |-> c, stats |-> [s EXCEPT !.misses = @ + 1],
          val |-> NoneVal, hit |-> FALSE]
    ELSE LET i == IndexOf(c, k)
             item == c[i]
         IN IF is_expired(item, t)
              THEN [cache |-> RemoveAt(c, i),
                    stats |-> [s EXCEPT !.misses = @ + 1, !.expired_items = @ + 1,
                                        !.current_size = @ - 1],
                    val |-> NoneVal, hit |-> FALSE]
              ELSE [cache |-> Append(RemoveAt(c, i),
                                     [item EXCEPT !.last_accessed = t,
                                                  !.created_at = t,
                                                  !.access_count = @ + 1]),
                    stats |-> [s EXCEPT !.hits = @ + 1],
                    val |-> item.value, hit |-> TRUE]

\* variant: a get removes its expired entry without counting it in expired_items
LRUGet_drops_silently(c, s, k, t) ==
  IF k \notin CacheKeys(c)
    THEN [cache |-> c, stats |-> [s EXCEPT !.misses = @ + 1],
          val |-> NoneVal, hit |-> FALSE]
    ELSE LET i == IndexOf(c, k)
             item == c[i]
         IN IF is_expired(item, t)
              THEN [cache |-> RemoveAt(c, i),
                    stats |-> [s EXCEPT !.misses = @ + 1, !.current_size = @ - 1],
                    val |-> NoneVal, hit |-> FALSE]
              ELSE [cache |-> Append(RemoveAt(c, i),
                                     [item EXCEPT !.last_accessed = t,
                                                  !.access_count = @ + 1]),
                    stats |-> [s EXCEPT !.hits = @ + 1],
                    val |-> item.value, hit |-> TRUE]

LRUGet(c, s, k, t) ==
  IF k \notin CacheKeys(c)
    THEN [cache |-> c, stats |-> [s EXCEPT !.misses = @ + 1],
          val |-> NoneVal, hit |-> FALSE]
    ELSE LET i == IndexOf(c, k)
             item == c[i]
         IN IF is_expired(item, t)
              THEN [cache |-> RemoveAt(c, i),
                    stats |-> [s EXCEPT !.misses = @ + 1, !.expired_items = @ + 1,
                                        !.current_size = @ - 1],
                    val |-> NoneVal, hit |-> FALSE]
              ELSE [cache |-> Append(RemoveAt(c, i),
                                     [item EXCEPT !.last_accessed = t,
                                                  !.access_count = @ + 1]),
                    stats |-> [s EXCEPT !.hits = @ + 1],
                    val |-> item.value, hit |-> TRUE]

\* variant: a set on a cached key adds a second entry for it
LRUSet_duplicates_key(c, s, ms, k, v, ttl, t) ==
  LET item == CacheItem(k, v, t, ttl)
      e == IF Len(c) >= ms THEN _evict_lru(c, s) ELSE [cache |-> c, stats |-> s]
      c1 == Append(e.cache, item)
  IN [cache |-> c1,
      stats |-> _update_memory_usage(c1, [e.stats EXCEPT !.current_size = @ + 1,
                                                         !.sets = @ + 1]),
      ok |-> TRUE]

\* variant: a set on a cached key moves it to the end and keeps the old item
LRUSet_keeps_old_item(c, s, ms, k, v, ttl, t) ==
  LET item == CacheItem(k, v, t, ttl)
      r == IF k \in CacheKeys(c)
             THEN [cache |-> Append(RemoveAt(c, IndexOf(c, k)), c[IndexOf(c, k)]),
                   stats |-> s]
             ELSE LET e == IF Len(c) >= ms THEN _evict_lru(c, s)
                           ELSE [cache |-> c, stats |-> s]
                  IN [cache |-> Append(e.cache, item),
                      stats |-> [e.stats EXCEPT !.current_size = @ + 1]]
  IN [cache |-> r.cache,
      stats |-> _update_memory_usage(r.cache, [r.stats EXCEPT !.sets = @ + 1]),
      ok |-> TRUE]

\* variant: a new key evicts as soon as the cache would become full
LRUSet_evicts_early(c, s, ms, k, v, ttl, t) ==
  LET item == CacheItem(k, v, t, ttl)
      r == IF k \in CacheKeys(c)
             THEN [cache |-> Append(RemoveAt(c, IndexOf(c, k)), item), stats |-> s]
             ELSE LET e == IF Len(c) + 1 >= ms THEN _evict_lru(c, s)
                           ELSE [cache |-> c, stats |-> s]
                  IN [cache |-> Append(e.cache, item),
                      stats |-> [e.stats EXCEPT !.current_size = @ + 1]]
  IN [cache |-> r.cache,
      stats |-> _update_memory_usage(r.cache, [r.stats EXCEPT !.sets = @ + 1]),
      ok |-> TRUE]

LRUSet(c, s, ms, k, v, ttl, t) ==
  LET item == CacheItem(k, v, t, ttl)
      r == IF k \in CacheKeys(c)
             THEN [cache |-> Append(RemoveAt(c, IndexOf(c, k)), item), stats |-> s]
             ELSE LET e == IF Len(c) >= ms THEN _evict_lru(c, s)
                           ELSE [cache |-> c, stats |-> s]
                  IN [cache |-> Append(e.cache, item),
                      stats |-> [e.stats EXCEPT !.current_size = @ + 1]]
  IN [cache |-> r.cache,
      stats |-> _update_memory_usage(r.cache, [r.stats EXCEPT !.sets = @ + 1]),
      ok |-> TRUE]

\* variant: delete counts the key as deleted and leaves it cached
LRUDelete_keeps_entry(c, s, k) ==
  IF k \in CacheKeys(c)
    THEN [cache |-> c,
          stats |-> _update_memory_usage(c, [s EXCEPT !.deletes = @ + 1,
                                                      !.current_size = @ - 1]),
          ok |-> TRUE]
    ELSE [cache |-> c, stats |-> s, ok |-> FALSE]

LRUDelete(c, s, k) ==
  IF k \in CacheKeys(c)
    THEN LET c1 == RemoveAt(c, IndexOf(c, k))
         IN [cache |-> c1,
             stats |-> _update_memory_usage(c1, [s EXCEPT !.deletes = @ + 1,
                                                          !.current_size = @ - 1]),
             ok |-> TRUE]
    ELSE [cache |-> c, stats |-> s, ok |-> FALSE]

\* variant: clear leaves stats.current_size as it was
LRUClear_keeps_size(c, s) ==
  [cache |-> <<>>, stats |-> _update_memory_usage(<<>>, s), val |-> Len(c)]

LRUClear(c, s) ==
  [cache |-> <<>>,
   stats |-> _update_memory_usage(<<>>, [s EXCEPT !.current_size = 0]),
   val |-> Len(c)]

\* LRUCache.get_multi: one get per key, in order; a value that is None is left
\* out of the result
RECURSIVE get_multi(_, _, _, _)
get_multi(c, s, keys, t) ==
  IF keys = <<>> THEN [cache |-> c, stats |-> s, result |-> <<>>]
  ELSE LET g == LRUGet(c, s, Head(keys), t)
           rest == get_multi(g.cache, g.stats, Tail(keys), t)
       IN [rest EXCEPT !.result = IF g.val # NoneVal
                                    THEN rest.result @@ (Head(keys) :> g.val)
                                    ELSE rest.result]

\* LRUCache.set_multi: one set per item of the dict, in order; items is the
\* sequence of the dict's (key, value) pairs
RECURSIVE set_multi(_, _, _, _, _, _)
set_multi(c, s, ms, items, ttl, t) ==
  IF items = <<>> THEN [cache |-> c, stats |-> s, count |-> 0]
  ELSE LET r == LRUSet(c, s, ms, Head(items)[1], Head(items)[2], ttl, t)
           rest == set_multi(r.cache, r.stats, ms, Tail(items), ttl, t)
       IN [rest EXCEPT !.count = @ + (IF r.ok THEN 1 ELSE 0)]

\* LRUCache.get_keys: `pattern in k` for the keys of at most one character and a
\* pattern of one character is k = pattern; None and '' do not filter
get_keys(c, pattern) ==
  LET keys == [i \in 1..Len(c) |-> c[i].key]
  IN IF pattern # None /\ pattern[1] # ""
       THEN SelectSeq(keys, LAMBDA k : k = pattern[1])
       ELSE keys

\* the history after the gets of get_multi / the sets of set_multi
RECURSIVE HistAfterGets(_, _, _, _, _)
HistAfterGets(h, c, s, keys, t) ==
  IF keys = <<>> THEN h
  ELSE LET g == LRUGet(c, s, Head(keys), t)
       IN HistAfterGets(HistAfter(h, "get", Head(keys), NoneVal, None, g.hit, g.hit, t,
                                  CacheKeys(c), CacheKeys(g.cache)),
                        g.cache, g.stats, Tail(keys), t)

RECURSIVE HistAfterSets(_, _, _, _, _, _, _)
HistAfterSets(h, c, s, ms, items, ttl, t) ==
  IF items = <<>> THEN h
  ELSE LET r == LRUSet(c, s, ms, Head(items)[1], Head(items)[2], ttl, t)
       IN HistAfterSets(HistAfter(h, "set", Head(items)[1], Head(items)[2], ttl, r.ok,
                                  FALSE, t, CacheKeys(c), CacheKeys(r.cache)),
                        r.cache, r.stats, ms, Tail(items), ttl, t)

\* variant: the scan finds the expired entries and removes none
CleanupScan_removes_none(c, s, t) == [cache |-> c, stats |-> s]

\* variant: the scan deletes the expired entries and is cut before the counters
CleanupScan_half_removes(c, s, t) ==
  [cache |-> SelectSeq(c, LAMBDA item : ~is_expired(item, t)), stats |-> s]

\* one pass of the expirer's scan, under the lock
CleanupScan(c, s, t) ==
  LET c1 == SelectSeq(c, LAMBDA item : ~is_expired(item, t))
      n == Len(c) - Len(c1)
      s1 == [s EXCEPT !.expired_items = @ + n, !.current_size = @ - n]
  IN [cache |-> c1, stats |-> IF n > 0 THEN _update_memory_usage(c1, s1) ELSE s1]

\* ------------------------------------------------ storage.py: StorageItem
_estimate_size(k, v) == KeyLen(k) + ValueLen(v) + 200

StorageItem(k, v, t, ttl, tags) ==
  [key |-> k, value |-> v, created_at |-> t, ttl |-> ttl, access_count |-> 0,
   last_accessed |-> t, size_bytes |-> _estimate_size(k, v), tags |-> tags]

\* ------------------------------------------- storage.py: eviction policies
\* A heap is kept as the sorted sequence of its tuples: heappush inserts, heappop
\* takes the head.  Tuples compare as in Python, field by field.
TupleLess(x, y) ==
  \/ x[1] < y[1]
  \/ x[1] = y[1] /\ IF Len(x) = 2 THEN KeyRank(x[2]) < KeyRank(y[2])
                    ELSE \/ x[2] < y[2]
                         \/ x[2] = y[2] /\ KeyRank(x[3]) < KeyRank(y[3])

heappush(h, x) ==
  LET n == Cardinality({i \in 1..Len(h) : ~TupleLess(x, h[i])})
  IN SubSeq(h, 1, n) \o <<x>> \o SubSeq(h, n + 1, Len(h))

Without(f, k) == [j \in DOMAIN f \ {k} |-> f[j]]

\* OrderedDict.move_to_end(key); KeyError on a key it does not hold
MoveToEnd(order, k) == Append(SelectSeq(order, LAMBDA j : j # k), k)

on_access(p, pl, k) ==
  CASE p = "LRU" -> [pl EXCEPT !.access_order = MoveToEnd(@, k)]
    [] p = "LFU" ->
         LET old_freq == IF k \in DOMAIN pl.key_to_freq THEN pl.key_to_freq[k] ELSE 0
             new_freq == old_freq + 1
         IN [frequency_heap |-> heappush(pl.frequency_heap, <<new_freq, pl.counter, k>>),
             key_to_freq |-> (k :> new_freq) @@ pl.key_to_freq,
             counter |-> pl.counter + 1]
    [] OTHER -> pl

\* access_order[key] = True: a key already in the OrderedDict keeps its place
on_insert(p, pl, k, item) ==
  CASE p = "LRU" -> IF k \in Range(pl.access_order) THEN pl
                    ELSE [pl EXCEPT !.access_order = Append(@, k)]
    [] p = "LFU" ->
         [frequency_heap |-> heappush(pl.frequency_heap, <<1, pl.counter, k>>),
          key_to_freq |-> (k :> 1) @@ pl.key_to_freq,
          counter |-> pl.counter + 1]
    [] OTHER -> IF item.ttl # None
                  THEN [pl EXCEPT !.expiry_heap =
                          heappush(@, <<item.created_at + item.ttl[1], k>>)]
                  ELSE pl

on_remove(p, pl, k) ==
  CASE p = "LRU" -> [pl EXCEPT !.access_order = SelectSeq(@, LAMBDA j : j # k)]
    [] p = "LFU" -> [pl EXCEPT !.key_to_freq = Without(@, k)]
    [] OTHER -> pl

\* LFUEvictionPolicy.select_victim: pop until an entry matches key_to_freq
RECURSIVE LFUSelect(_)
LFUSelect(pl) ==
  IF pl.frequency_heap = <<>> THEN [pol |-> pl, victim |-> None]
  ELSE LET e == Head(pl.frequency_heap)
           pl1 == [pl EXCEPT !.frequency_heap = Tail(@)]
       IN IF e[3] \in DOMAIN pl.key_to_freq /\ pl.key_to_freq[e[3]] = e[1]
            THEN [pol |-> pl1, victim |-> Some(e[3])]
            ELSE LFUSelect(pl1)

\* TTLEvictionPolicy.select_victim: pop until a stored key whose
\* created_at + ttl <= current_time
RECURSIVE TTLSelect(_, _, _)
TTLSelect(pl, sto, t) ==
  IF pl.expiry_heap = <<>> THEN [pol |-> pl, victim |-> None]
  ELSE LET e == Head(pl.expiry_heap)
           pl1 == [pl EXCEPT !.expiry_heap = Tail(@)]
       IN IF /\ e[2] \in DOMAIN sto
             /\ sto[e[2]].ttl # None
             /\ sto[e[2]].created_at + sto[e[2]].ttl[1] <= t
            THEN [pol |-> pl1, victim |-> Some(e[2])]
            ELSE TTLSelect(pl1, sto, t)

select_victim(p, pl, sto, t) ==
  CASE p = "LRU" -> [pol |-> pl,
                     victim |-> IF pl.access_order # <<>> THEN Some(Head(pl.access_order))
                                ELSE None]
    [] p = "LFU" -> LFUSelect(pl)
    [] OTHER -> TTLSelect(pl, sto, t)

\* --------------------------------------------- storage.py: AdvancedStorage
\* st: [storage, tag_index, pol, metrics], the fields an operation changes
StoreOf(sto, ti, pl, m) == [storage |-> sto, tag_index |-> ti, pol |-> pl, metrics |-> m]

\* variant: a bucket that becomes empty stays in the index
RECURSIVE UnindexTags_keeps_empty(_, _, _)
UnindexTags_keeps_empty(ti, tags, k) ==
  IF tags = <<>> THEN ti
  ELSE LET tag == Head(tags)
           bucket == (IF tag \in DOMAIN ti THEN ti[tag] ELSE {}) \ {k}
       IN UnindexTags_keeps_empty((tag :> bucket) @@ ti, Tail(tags), k)

\* the loop over item.tags of _remove_item; tag_index is a defaultdict(set)
RECURSIVE UnindexTags(_, _, _)
UnindexTags(ti, tags, k) ==
  IF tags = <<>> THEN ti
  ELSE LET tag == Head(tags)
           bucket == (IF tag \in DOMAIN ti THEN ti[tag] ELSE {}) \ {k}
       IN UnindexTags(IF bucket = {} THEN Without(ti, tag) ELSE (tag :> bucket) @@ ti,
                      Tail(tags), k)

RECURSIVE IndexTags(_, _, _)
IndexTags(ti, tags, k) ==
  IF tags = <<>> THEN ti
  ELSE LET tag == Head(tags)
           bucket == (IF tag \in DOMAIN ti THEN ti[tag] ELSE {}) \cup {k}
       IN IndexTags((tag :> bucket) @@ ti, Tail(tags), k)

\* variant: the removed item's bytes stay in total_memory_bytes
_remove_item_keeps_bytes(p, st, k) ==
  IF k \in DOMAIN st.storage
    THEN LET item == st.storage[k]
         IN StoreOf(Without(st.storage, k),
                    UnindexTags(st.tag_index, item.tags, k),
                    on_remove(p, st.pol, k),
                    st.metrics)
    ELSE st

_remove_item(p, st, k) ==
  IF k \in DOMAIN st.storage
    THEN LET item == st.storage[k]
         IN StoreOf(Without(st.storage, k),
                    UnindexTags(st.tag_index, item.tags, k),
                    on_remove(p, st.pol, k),
                    [st.metrics EXCEPT !.total_memory_bytes = @ - item.size_bytes])
    ELSE st

\* `if victim_key:` is false for None and for the empty string
Truthy(victim) == victim # None /\ victim[1] # ""

_evict_one(p, st, t) ==
  LET sel == select_victim(p, st.pol, st.storage, t)
      st1 == [st EXCEPT !.pol = sel.pol]
  IN IF Truthy(sel.victim)
       THEN LET st2 == _remove_item(p, st1, sel.victim[1])
            IN [st |-> [st2 EXCEPT !.metrics.eviction_count = @ + 1], ok |-> TRUE]
       ELSE [st |-> st1, ok |-> FALSE]

StorageGetOp(p, st, k, t) ==
  LET m1 == [st.metrics EXCEPT !.access_count = @ + 1]
      st1 == [st EXCEPT !.metrics = m1]
  IN IF k \notin DOMAIN st.storage
       THEN [st |-> [st1 EXCEPT !.metrics.miss_count = @ + 1], val |-> NoneVal,
             hit |-> FALSE, err |-> ""]
       ELSE LET item == st.storage[k]
            IN IF is_expired(item, t)
                 THEN [st |-> [_remove_item(p, st1, k) EXCEPT !.metrics.miss_count = @ + 1],
                       val |-> NoneVal, hit |-> FALSE, err |-> ""]
                 ELSE LET st2 == [st1 EXCEPT
                                    !.storage[k] = [item EXCEPT !.last_accessed = t,
                                                                !.access_count = @ + 1]]
                      IN IF p = "LRU" /\ k \notin Range(st.pol.access_order)
                           THEN [st |-> st2, val |-> NoneVal, hit |-> FALSE,
                                 err |-> "KeyError"]
                           ELSE [st |-> [st2 EXCEPT !.pol = on_access(p, st.pol, k),
                                                    !.metrics.hit_count = @ + 1],
                                 val |-> item.value, hit |-> TRUE, err |-> ""]

\* variant: `>` for `>=` in the test of the entry count
NeedsSpace_count_late(st, ms, item) ==
  \/ Cardinality(DOMAIN st.storage) > ms
  \/ st.metrics.total_memory_bytes + item.size_bytes > max_memory_bytes

\* set's test `len(storage) >= max_size or total + size > max_memory_bytes`
NeedsSpace(st, ms, item) ==
  \/ Cardinality(DOMAIN st.storage) >= ms
  \/ st.metrics.total_memory_bytes + item.size_bytes > max_memory_bytes

\* set, after the loop: store the item, index its tags, tell the policy
Install(p, st, item) ==
  StoreOf((item.key :> item) @@ st.storage,
          IndexTags(st.tag_index, item.tags, item.key),
          on_insert(p, st.pol, item.key, item),
          [st.metrics EXCEPT !.total_memory_bytes = @ + item.size_bytes])

StorageDeleteOp(p, st, k) ==
  IF k \in DOMAIN st.storage THEN [st |-> _remove_item(p, st, k), ok |-> TRUE]
  ELSE [st |-> st, ok |-> FALSE]

\* clear() empties storage and tag_index and leaves the policy as it is
StorageClearOp(st) ==
  [st |-> StoreOf(<<>>, <<>>, st.pol, [st.metrics EXCEPT !.total_memory_bytes = 0]),
   val |-> Cardinality(DOMAIN st.storage)]

\* AdvancedStorage.get_stats; a quotient is <<numerator, denominator>>, and the
\* hit ratio of no access is 0
StorageGetStats(p, st, ms) ==
  [current_size |-> Cardinality(DOMAIN st.storage),
   max_size |-> ms,
   memory_usage_bytes |-> st.metrics.total_memory_bytes,
   max_memory_bytes |-> max_memory_bytes,
   memory_usage_percent |-> <<st.metrics.total_memory_bytes * 100, max_memory_bytes>>,
   access_count |-> st.metrics.access_count,
   hit_count |-> st.metrics.hit_count,
   miss_count |-> st.metrics.miss_count,
   hit_ratio |-> IF st.metrics.access_count > 0
                   THEN <<st.metrics.hit_count, st.metrics.access_count>>
                   ELSE <<0, 1>>,
   eviction_count |-> st.metrics.eviction_count,
   tag_count |-> Cardinality(DOMAIN st.tag_index),
   eviction_policy |-> p \o "EvictionPolicy"]

\* --------------------------------------------------------- construction
NoPending == [key |-> "", value |-> NoneVal, created_at |-> 0, ttl |-> None,
              access_count |-> 0, last_accessed |-> 0, size_bytes |-> 0, tags |-> <<>>]

NoTasks == [new |-> 0, sleeping |-> 0]

LRUPolicyInit == [access_order |-> <<>>]
LFUPolicyInit == [frequency_heap |-> <<>>, key_to_freq |-> <<>>, counter |-> 0]
TTLPolicyInit == [expiry_heap |-> <<>>]

PolicyInit(p) == CASE p = "LRU" -> LRUPolicyInit
                   [] p = "LFU" -> LFUPolicyInit
                   [] OTHER -> TTLPolicyInit

HistInit == [written |-> [k \in Keys |-> NoWrite], recency |-> <<>>, snap |-> None,
             gets |-> 0, inserts |-> 0, removed |-> 0, calls |-> 0, clears |-> 0,
             inserted |-> <<>>]

\* the (value, ttl, tags) triples the callers of AdvancedStorage store
StorageInputs == {<<NoneVal, None, <<"t">>>>, <<Half, Some(1), <<>>>>,
                  <<Huge, None, <<>>>>}

\* no _request is in progress.  attempt: passes of the retry loop made; last: what
\* the last pass met; last_exception as in _request; sent: HTTP requests sent;
\* slept: backoff sleeps made; steady: no host changed since the call (history)
NoReq == [op |-> "none", pc |-> "idle", attempt |-> 0, last |-> "",
          last_exception |-> "", sent |-> 0, slept |-> 0, steady |-> TRUE]

\* no client increments a counter
NoIncrement ==
  /\ server = None
  /\ incr = <<>>
  /\ expected = 0

\* a run of the caches constructs no client
NoClient ==
  /\ NoIncrement
  /\ config = [hosts |-> <<>>, max_retries |-> 0]
  /\ session = FALSE
  /\ health_status = <<>>
  /\ host_index = 0
  /\ net = <<>>
  /\ req = NoReq

\* LRUCache.__init__ / CacheEngine.__init__ and AdvancedStorage.__init__
Init ==
  /\ target \in {"engine", "storage"}
  /\ now = 0
  /\ steps = 0
  /\ ret = NoRet
  /\ max_size \in 1..MaxSize
  /\ cache = <<>>
  /\ stats = CacheStats(max_size)
  /\ lru_running = FALSE
  /\ cleanup_task = "none"
  /\ orphans = NoTasks
  /\ engine_running = FALSE
  /\ start_time = None
  /\ stop_pc = "idle"
  /\ policy \in (IF target = "storage" THEN {"LRU", "LFU", "TTL"} ELSE {"LRU"})
  /\ storage = <<>>
  /\ tag_index = <<>>
  /\ pol = PolicyInit(policy)
  /\ metrics = [total_memory_bytes |-> 0, access_count |-> 0, hit_count |-> 0,
                miss_count |-> 0, eviction_count |-> 0]
  /\ pc = "idle"
  /\ pending = NoPending
  /\ NoClient
  /\ hist = HistInit

\* time.time() moves on
Tick ==
  /\ steps < (IF target = "engine" THEN MaxSteps ELSE StorageSteps)
  /\ pc = "idle"
  /\ now' = now + 1
  /\ steps' = steps + 1
  /\ UNCHANGED <<target, ret, engineVars, storageVars, clientVars, hist>>

\* ------------------------------------------------- engine.py: CacheEngine
EngineCall ==
  /\ target = "engine"
  /\ steps < MaxSteps
  /\ UNCHANGED <<target, now, storageVars, clientVars, max_size>>

\* `if not self._running: raise RuntimeError(...)`
EngineRaise(op, k) ==
  /\ ret' = Raised(op, k)
  /\ UNCHANGED <<steps, cache, stats, hist>>

\* CacheEngine.start, LRUCache.start: a new expirer task on every call
EngineStart ==
  /\ EngineCall
  /\ stop_pc = "idle"
  /\ lru_running' = TRUE
  /\ cleanup_task' = "new"
  /\ orphans' = IF cleanup_task \in {"new", "sleeping"}
                  THEN [orphans EXCEPT ![cleanup_task] = @ + 1]
                  ELSE orphans
  /\ engine_running' = TRUE
  /\ start_time' = Some(now)
  /\ ret' = Ret("start", "", NoneVal, TRUE, FALSE)
  /\ steps' = steps + 1
  /\ UNCHANGED <<cache, stats, stop_pc, hist>>

\* CacheEngine.stop, LRUCache.stop up to `await self._cleanup_task`: with no task,
\* or a task that is done, the await does not suspend and stop() completes
EngineStop ==
  /\ EngineCall
  /\ stop_pc = "idle"
  /\ steps' = steps + 1
  /\ lru_running' = FALSE
  /\ IF cleanup_task \in {"new", "sleeping"}
       THEN /\ cleanup_task' = "cancelled"
            /\ stop_pc' = "await"
            /\ UNCHANGED <<engine_running, ret>>
       ELSE /\ engine_running' = FALSE
            /\ ret' = Ret("stop", "", NoneVal, TRUE, FALSE)
            /\ UNCHANGED <<cleanup_task, stop_pc>>
  /\ UNCHANGED <<cache, stats, orphans, start_time, hist>>

\* the cancelled expirer gets CancelledError at its sleep (or never runs)
ExpirerCancelled ==
  /\ target = "engine"
  /\ cleanup_task = "cancelled"
  /\ cleanup_task' = "done"
  /\ UNCHANGED <<target, now, steps, ret, max_size, cache, stats, lru_running, orphans,
                 engine_running, start_time, stop_pc, storageVars, clientVars, hist>>

\* stop() resumes after its task ended; CacheEngine.stop clears _running
EngineStopReturn ==
  /\ target = "engine"
  /\ stop_pc = "await"
  /\ cleanup_task = "done"
  /\ stop_pc' = "idle"
  /\ engine_running' = FALSE
  /\ ret' = Ret("stop", "", NoneVal, TRUE, FALSE)
  /\ UNCHANGED <<target, now, steps, max_size, cache, stats, lru_running, cleanup_task,
                 orphans, start_time, storageVars, clientVars, hist>>

\* _cleanup_expired_items, first run of a task: `while self._running`, then sleep
ExpirerBegin ==
  /\ target = "engine"
  /\ \/ /\ cleanup_task = "new"
        /\ cleanup_task' = IF lru_running THEN "sleeping" ELSE "done"
        /\ UNCHANGED orphans
     \/ /\ orphans.new > 0
        /\ orphans' = [orphans EXCEPT !.new = @ - 1,
                                      !.sleeping = @ + (IF lru_running THEN 1 ELSE 0)]
        /\ UNCHANGED cleanup_task
  /\ UNCHANGED <<target, now, steps, ret, max_size, cache, stats, lru_running,
                 engine_running, start_time, stop_pc, storageVars, clientVars, hist>>

\* _cleanup_expired_items: the sleep ends; not running -> the task ends, otherwise
\* one scan under the lock and back to sleep
ExpirerTick ==
  /\ target = "engine"
  /\ \/ /\ cleanup_task = "sleeping"
        /\ cleanup_task' = IF lru_running THEN "sleeping" ELSE "done"
        /\ UNCHANGED orphans
     \/ /\ orphans.sleeping > 0
        /\ orphans' = IF lru_running THEN orphans
                      ELSE [orphans EXCEPT !.sleeping = @ - 1]
        /\ UNCHANGED cleanup_task
  /\ IF lru_running
       THEN LET r == CleanupScan(cache, stats, now)
            IN /\ cache' = r.cache
               /\ stats' = r.stats
               /\ hist' = HistAfter(hist, "expire", "", NoneVal, None, TRUE, FALSE, now,
                                    CacheKeys(cache), CacheKeys(r.cache))
       ELSE UNCHANGED <<cache, stats, hist>>
  /\ UNCHANGED <<target, now, steps, ret, max_size, lru_running, engine_running,
                 start_time, stop_pc, storageVars, clientVars>>

EngineFrame == UNCHANGED <<lru_running, cleanup_task, orphans, engine_running,
                           start_time, stop_pc>>

\* variant: get without the test of _running
EngineGet_unchecked(k) ==
  /\ EngineCall
  /\ EngineFrame
  /\ LET r == LRUGet(cache, stats, k, now)
     IN /\ steps' = steps + 1
        /\ cache' = r.cache
        /\ stats' = r.stats
        /\ ret' = Ret("get", k, r.val, r.hit, r.hit)
        /\ hist' = HistAfter(hist, "get", k, NoneVal, None, r.hit, r.hit, now,
                             CacheKeys(cache), CacheKeys(r.cache))

\* CacheEngine.get -> LRUCache.get
EngineGet(k) ==
  /\ EngineCall
  /\ EngineFrame
  /\ IF ~engine_running THEN EngineRaise("get", k)
     ELSE LET r == LRUGet(cache, stats, k, now)
          IN /\ steps' = steps + 1
             /\ cache' = r.cache
             /\ stats' = r.stats
             /\ ret' = Ret("get", k, r.val, r.hit, r.hit)
             /\ hist' = HistAfter(hist, "get", k, NoneVal, None, r.hit, r.hit, now,
                                  CacheKeys(cache), CacheKeys(r.cache))

\* CacheEngine.set -> LRUCache.set
EngineSet(k, v, ttl) ==
  /\ EngineCall
  /\ EngineFrame
  /\ IF ~engine_running THEN EngineRaise("set", k)
     ELSE LET r == LRUSet(cache, stats, max_size, k, v, ttl, now)
          IN /\ steps' = steps + 1
             /\ cache' = r.cache
             /\ stats' = r.stats
             /\ ret' = Ret("set", k, v, r.ok, FALSE)
             /\ hist' = HistAfter(hist, "set", k, v, ttl, r.ok, FALSE, now,
                                  CacheKeys(cache), CacheKeys(r.cache))

\* CacheEngine.delete -> LRUCache.delete
EngineDelete(k) ==
  /\ EngineCall
  /\ EngineFrame
  /\ IF ~engine_running THEN EngineRaise("delete", k)
     ELSE LET r == LRUDelete(cache, stats, k)
          IN /\ steps' = steps + 1
             /\ cache' = r.cache
             /\ stats' = r.stats
             /\ ret' = Ret("delete", k, NoneVal, r.ok, FALSE)
             /\ hist' = HistAfter(hist, "delete", k, NoneVal, None, r.ok, FALSE, now,
                                  CacheKeys(cache), CacheKeys(r.cache))

\* CacheEngine.clear -> LRUCache.clear
EngineClear ==
  /\ EngineCall
  /\ EngineFrame
  /\ IF ~engine_running THEN EngineRaise("clear", "")
     ELSE LET r == LRUClear(cache, stats)
          IN /\ steps' = steps + 1
             /\ cache' = r.cache
             /\ stats' = r.stats
             /\ ret' = Ret("clear", "", r.val, TRUE, FALSE)
             /\ hist' = HistAfter(hist, "clear", "", NoneVal, None, TRUE, FALSE, now,
                                  CacheKeys(cache), CacheKeys(r.cache))

\* CacheEngine.stats -> LRUCache.get_stats
EngineStats ==
  /\ EngineCall
  /\ EngineFrame
  /\ IF ~engine_running THEN EngineRaise("stats", "")
     ELSE LET r == get_stats(cache, stats)
          IN /\ steps' = steps + 1
             /\ stats' = r.stats
             /\ ret' = [Ret("stats", "", NoneVal, TRUE, FALSE) EXCEPT
                          !.report = Some(r.report)]
             /\ hist' = HistAfter(hist, "stats", "", NoneVal, None, TRUE, FALSE, now,
                                  CacheKeys(cache), CacheKeys(cache))
             /\ UNCHANGED cache

\* the dict health_check builds from the stats dict; a key the dict lacks is a
\* KeyError
HealthReport(snapshot, running, started, t) ==
  IF {"current_size", "hit_ratio", "memory_usage_mb"} \subseteq DOMAIN snapshot
    THEN [err |-> "",
          report |-> Some([status |-> IF running THEN "healthy" ELSE "stopped",
                           uptime_seconds |-> IF started # None THEN t - started[1]
                                              ELSE 0,
                           cache_size |-> snapshot.current_size,
                           hit_ratio |-> snapshot.hit_ratio,
                           memory_usage_mb |-> snapshot.memory_usage_mb,
                           last_check |-> t])]
    ELSE [err |-> "KeyError", report |-> None]

\* CacheEngine.health_check: `stats = await self.stats()`, then the report
EngineHealth ==
  /\ EngineCall
  /\ EngineFrame
  /\ IF ~engine_running THEN EngineRaise("health", "")
     ELSE LET r == get_stats(cache, stats)
              h == HealthReport(r.report, engine_running, start_time, now)
          IN /\ steps' = steps + 1
             /\ stats' = r.stats
             /\ ret' = [Ret("health", "", NoneVal, h.err = "", FALSE) EXCEPT
                          !.err = h.err, !.report = h.report]
             /\ hist' = HistAfter(hist, "health", "", NoneVal, None, TRUE, FALSE, now,
                                  CacheKeys(cache), CacheKeys(cache))
             /\ UNCHANGED cache

\* server.py handlers that call engine.cache directly
BatchKeys == {<<"a", "b">>}
BatchItems == {<<<<"a", Half>>, <<"b", NoneVal>>>>}
Patterns == {None, Some("a")}
Limits == {1, 100}

ServerCall ==
  /\ EngineCall
  /\ EngineFrame
  /\ steps' = steps + 1

\* POST /cache/batch/get
batch_get(keys) ==
  /\ ServerCall
  /\ LET r == get_multi(cache, stats, keys, now)
     IN /\ cache' = r.cache
        /\ stats' = r.stats
        /\ ret' = [Ret("batch_get", "", Cardinality(DOMAIN r.result), TRUE, FALSE)
                     EXCEPT !.report = Some(r.result)]
        /\ hist' = HistAfterGets(hist, cache, stats, keys, now)

\* POST /cache/batch/set
batch_set(items, ttl) ==
  /\ ServerCall
  /\ LET r == set_multi(cache, stats, max_size, items, ttl, now)
     IN /\ cache' = r.cache
        /\ stats' = r.stats
        /\ ret' = Ret("batch_set", "", r.count, TRUE, FALSE)
        /\ hist' = HistAfterSets(hist, cache, stats, max_size, items, ttl, now)

\* GET /admin/keys
list_keys(pattern, limit) ==
  /\ ServerCall
  /\ LET keys == get_keys(cache, pattern)
         limited_keys == SubSeq(keys, 1, IF limit < Len(keys) THEN limit ELSE Len(keys))
     IN ret' = [Ret("list_keys", "", Len(keys), TRUE, FALSE)
                  EXCEPT !.report = Some(limited_keys)]
  /\ hist' = [hist EXCEPT !.calls = @ + 1]
  /\ UNCHANGED <<cache, stats>>

NextEngine ==
  \/ EngineStart
  \/ EngineStop
  \/ ExpirerCancelled
  \/ EngineStopReturn
  \/ ExpirerBegin
  \/ ExpirerTick
  \/ \E k \in Keys : EngineGet(k)
  \/ \E k \in Keys, in \in SetInputs : EngineSet(k, in[1], in[2])
  \/ \E k \in Keys : EngineDelete(k)
  \/ EngineClear
  \/ EngineStats
  \/ EngineHealth
  \/ \E keys \in BatchKeys : batch_get(keys)
  \/ \E items \in BatchItems : batch_set(items, None)
  \/ \E pattern \in Patterns, limit \in Limits : list_keys(pattern, limit)

\* --------------------------------------------- storage.py: AdvancedStorage
Store == StoreOf(storage, tag_index, pol, metrics)

StoreBecomes(st) ==
  /\ storage' = st.storage
  /\ tag_index' = st.tag_index
  /\ pol' = st.pol
  /\ metrics' = st.metrics

\* every public method runs under self._lock from its first line to its return
StorageCall ==
  /\ target = "storage"
  /\ pc = "idle"
  /\ steps < StorageSteps
  /\ steps' = steps + 1
  /\ UNCHANGED <<target, now, engineVars, clientVars, policy>>

StorageGet(k) ==
  /\ StorageCall
  /\ LET r == StorageGetOp(policy, Store, k, now)
     IN /\ StoreBecomes(r.st)
        /\ ret' = [Ret("get", k, r.val, r.hit, r.hit) EXCEPT !.err = r.err]
        /\ hist' = HistAfter(hist, "get", k, NoneVal, None, r.hit, r.hit, now,
                             DOMAIN storage, DOMAIN r.st.storage)
  /\ UNCHANGED <<pc, pending>>

\* set, lines 246-259: build the item, remove the old version of the key
StorageSetBegin(k, v, ttl, tags) ==
  /\ StorageCall
  /\ pending' = StorageItem(k, v, now, ttl, tags)
  /\ StoreBecomes(_remove_item(policy, Store, k))
  /\ pc' = "set"
  /\ hist' = [hist EXCEPT !.snap = Some(Store)]
  /\ UNCHANGED ret

\* set, lines 262-281: one turn of the make-space loop, or the loop's exit.
\* The loop may turn for ever; eviction_count is followed up to MaxSteps.
StorageSetStep ==
  /\ target = "storage"
  /\ pc = "set"
  /\ IF NeedsSpace(Store, max_size, pending)
       THEN LET e == _evict_one(policy, Store, now)
            IN IF e.ok
                 THEN /\ metrics.eviction_count < MaxSteps
                      /\ StoreBecomes(e.st)
                      /\ UNCHANGED <<pc, pending, ret, hist>>
                 ELSE /\ StoreBecomes(e.st)
                      /\ pc' = "idle"
                      /\ pending' = NoPending
                      /\ ret' = Ret("set", pending.key, pending.value, FALSE, FALSE)
                      /\ hist' = HistAfter(hist, "set", pending.key, pending.value,
                                           pending.ttl, FALSE, FALSE, now,
                                    DOMAIN hist.snap[1].storage,
                                           DOMAIN e.st.storage)
       ELSE LET st == Install(policy, Store, pending)
            IN /\ StoreBecomes(st)
               /\ pc' = "idle"
               /\ pending' = NoPending
               /\ ret' = Ret("set", pending.key, pending.value, TRUE, FALSE)
               /\ hist' = HistAfter(hist, "set", pending.key, pending.value,
                                    pending.ttl, TRUE, FALSE, now,
                                    DOMAIN hist.snap[1].storage,
                                    DOMAIN st.storage)
  /\ UNCHANGED <<target, now, steps, engineVars, clientVars, policy>>

StorageDelete(k) ==
  /\ StorageCall
  /\ LET r == StorageDeleteOp(policy, Store, k)
     IN /\ StoreBecomes(r.st)
        /\ ret' = Ret("delete", k, NoneVal, r.ok, FALSE)
        /\ hist' = HistAfter(hist, "delete", k, NoneVal, None, r.ok, FALSE, now,
                             DOMAIN storage, DOMAIN r.st.storage)
  /\ UNCHANGED <<pc, pending>>

StorageClear ==
  /\ StorageCall
  /\ LET r == StorageClearOp(Store)
     IN /\ StoreBecomes(r.st)
        /\ ret' = Ret("clear", "", r.val, TRUE, FALSE)
        /\ hist' = HistAfter(hist, "clear", "", NoneVal, None, TRUE, FALSE, now,
                             DOMAIN storage, DOMAIN r.st.storage)
  /\ UNCHANGED <<pc, pending>>

NextStorage ==
  \/ \E k \in Keys : StorageGet(k)
  \/ \E k \in Keys, in \in StorageInputs : StorageSetBegin(k, in[1], in[2], in[3])
  \/ StorageSetStep
  \/ \E k \in Keys : StorageDelete(k)
  \/ StorageClear

Next == Tick \/ NextEngine \/ NextStorage

Spec == Init /\ [][Next]_vars

\* ------------------------------------ storage.py: runs under the TTL policy
\* An AdvancedStorage with TTLEvictionPolicy whose callers also wait for more
\* than one second between two operations.
MaxSleep == 2
\* longest wait between two operations, in seconds

TTLInit == Init /\ target = "storage" /\ policy = "TTL"

\* time.time() moves on by d seconds
Sleep(d) ==
  /\ target = "storage"
  /\ steps < StorageSteps
  /\ pc = "idle"
  /\ now' = now + d
  /\ steps' = steps + 1
  /\ UNCHANGED <<target, ret, engineVars, storageVars, clientVars, hist>>

TTLNext ==
  \/ \E d \in 1..MaxSleep : Sleep(d)
  \/ NextStorage

TTLSpec == TTLInit /\ [][TTLNext]_vars

\* ------------------------------------------- python_client.py: the client
\* A run of the client: one CacheGridClient, its hosts and what each of them does
\* with a request (net), which changes while the client is suspended.
MaxHosts == 2
\* most hosts a client is configured with

MaxRetries == 2
\* largest max_retries a client is configured with

ClientSteps == MaxSteps - 1
\* client calls (connect, close, get, set, stats) and changes of the net in a run

\* what a host does with a request: answer 200, refuse the connection, let the
\* request time out, answer 500, answer 404
NetStates == {"ok", "refused", "timeout", "http500", "http404"}

ClientOps == {"get", "set", "stats"}

\* dict.get(key, default) on a JSON object
DictGet(d, key, default) == IF key \in DOMAIN d THEN d[key] ELSE default

EmptyDict == [x \in {} |-> NoneVal]

\* the JSON a server answers with status 200: the key "a" holds the value Half
Json200(op) ==
  CASE op = "get" -> [key |-> "a", value |-> Half, exists |-> TRUE, hit |-> TRUE]
    [] op = "set" -> [success |-> TRUE, key |-> "a"]
    [] OTHER -> [current_size |-> 1, hit_ratio |-> <<0, 1>>]

\* _request's answer to status 404
Json404 == [exists |-> FALSE, value |-> NoneVal]

\* CacheGridClient._get_healthy_host; the dict _health_status is in the order of
\* config.hosts, in which _health_check_all_hosts fills it
_get_healthy_host(cfg, hs, idx) ==
  LET healthy_hosts == SelectSeq(cfg.hosts, LAMBDA h : h \in DOMAIN hs /\ hs[h])
  IN IF healthy_hosts = <<>>
       THEN [host |-> cfg.hosts[1], index |-> idx]
       ELSE [host |-> healthy_hosts[(idx % Len(healthy_hosts)) + 1], index |-> idx + 1]

\* CacheGridClient._health_check_all_hosts: healthy iff GET /health answers 200
_health_check_all_hosts(cfg, nt) == [h \in Range(cfg.hosts) |-> nt[h] = "ok"]

\* a host that timed out or refused is marked unhealthy if it was ever checked
MarkUnhealthy(hs, h) == IF h \in DOMAIN hs THEN [hs EXCEPT ![h] = FALSE] ELSE hs

\* one pass of the retry loop of _request: the host, what it met, and either the
\* dict returned or the exception kept in last_exception
Attempt(cfg, sess, hs, idx, nt, op) ==
  LET g == _get_healthy_host(cfg, hs, idx)
      met == IF sess THEN nt[g.host] ELSE "nosession"
  IN [index |-> g.index,
      met |-> met,
      sent |-> IF sess THEN 1 ELSE 0,
      returns |-> met \in {"ok", "http404"},
      response |-> IF met = "ok" THEN Json200(op) ELSE Json404,
      exception |-> CASE met = "timeout" -> "CacheGridTimeoutError"
                      [] met = "refused" -> "CacheGridConnectionError"
                      [] met \in {"http500", "nosession"} -> "CacheGridError"
                      [] OTHER -> "",
      health |-> IF met \in {"timeout", "refused"} THEN MarkUnhealthy(hs, g.host)
                 ELSE hs]

\* get / set / stats around a _request that returned a dict
Returns(op, response) ==
  CASE op = "get" ->
         IF DictGet(response, "exists", FALSE)
           THEN Ret("get", "a", DictGet(response, "value", NoneVal), TRUE, TRUE)
           ELSE Ret("get", "a", NoneVal, FALSE, FALSE)
    [] op = "set" -> Ret("set", "a", Half, TRUE, FALSE)
    [] OTHER -> [Ret("stats", "", NoneVal, TRUE, FALSE) EXCEPT !.report = Some(response)]

\* get / set / stats around a _request that raised: every exception _request
\* raises is a CacheGridError, which they catch
Catches(op) ==
  CASE op = "get" -> Ret("get", "a", NoneVal, FALSE, FALSE)
    [] op = "set" -> Ret("set", "a", Half, FALSE, FALSE)
    [] OTHER -> [Ret("stats", "", NoneVal, FALSE, FALSE) EXCEPT !.report = Some(EmptyDict)]

ClientFrame ==
  UNCHANGED <<target, now, engineVars, storageVars, hist, config, incrVars>>

\* CacheGridClient.__init__ for each configuration, and the net
ClientInit ==
  /\ target = "client"
  /\ now = 0
  /\ steps = 0
  /\ ret = NoRet
  /\ max_size = 1
  /\ cache = <<>>
  /\ stats = CacheStats(max_size)
  /\ lru_running = FALSE
  /\ cleanup_task = "none"
  /\ orphans = NoTasks
  /\ engine_running = FALSE
  /\ start_time = None
  /\ stop_pc = "idle"
  /\ policy = "LRU"
  /\ storage = <<>>
  /\ tag_index = <<>>
  /\ pol = PolicyInit(policy)
  /\ metrics = [total_memory_bytes |-> 0, access_count |-> 0, hit_count |-> 0,
                miss_count |-> 0, eviction_count |-> 0]
  /\ pc = "idle"
  /\ pending = NoPending
  /\ hist = HistInit
  /\ \E n \in 1..MaxHosts, r \in 0..MaxRetries :
       /\ config = [hosts |-> [i \in 1..n |-> i], max_retries |-> r]
       /\ net \in [1..n -> NetStates]
  /\ session = FALSE
  /\ health_status = <<>>
  /\ host_index = 0
  /\ req = NoReq
  /\ NoIncrement

ClientCallGuard ==
  /\ target = "client"
  /\ req.pc = "idle"
  /\ steps < ClientSteps
  /\ steps' = steps + 1
  /\ ClientFrame

\* CacheGridClient.connect: the session, then the health check of every host
ClientConnect ==
  /\ ClientCallGuard
  /\ session' = TRUE
  /\ health_status' = _health_check_all_hosts(config, net)
  /\ ret' = Ret("connect", "", NoneVal, TRUE, FALSE)
  /\ UNCHANGED <<host_index, net, req>>

\* CacheGridClient.close
ClientClose ==
  /\ ClientCallGuard
  /\ session' = FALSE
  /\ ret' = Ret("close", "", NoneVal, TRUE, FALSE)
  /\ UNCHANGED <<health_status, host_index, net, req>>

\* get, set or stats is called and enters _request; with max_retries = 0 the loop
\* is empty and _request raises CacheGridError at once
ClientCall(op) ==
  /\ ClientCallGuard
  /\ IF config.max_retries = 0
       THEN /\ req' = [NoReq EXCEPT !.op = op]
            /\ ret' = Catches(op)
       ELSE /\ req' = [NoReq EXCEPT !.op = op, !.pc = "attempt"]
            /\ UNCHANGED ret
  /\ UNCHANGED <<session, health_status, host_index, net>>

\* variant: a 404 is kept as an error and the loop goes on
ClientAttempt_retries_404 ==
  /\ target = "client"
  /\ req.pc = "attempt"
  /\ LET a == Attempt(config, session, health_status, host_index, net, req.op)
         r == [req EXCEPT !.attempt = @ + 1, !.last = a.met, !.sent = @ + a.sent,
                          !.last_exception = IF a.met = "ok" THEN @ ELSE "CacheGridError"]
     IN /\ host_index' = a.index
        /\ health_status' = a.health
        /\ IF a.met = "ok"
             THEN /\ req' = [r EXCEPT !.pc = "idle"]
                  /\ ret' = Returns(req.op, a.response)
             ELSE IF r.attempt >= config.max_retries
               THEN /\ req' = [r EXCEPT !.pc = "idle"]
                    /\ ret' = Catches(req.op)
               ELSE /\ req' = [r EXCEPT !.slept = @ + 1]
                    /\ UNCHANGED ret
  /\ ClientFrame
  /\ UNCHANGED <<steps, session, net>>

\* one pass of the retry loop: it returns the answer to a 200 or a 404; otherwise
\* it keeps the exception and sleeps before the next pass, or, after the last
\* pass, _request raises and the operation catches
ClientAttempt ==
  /\ target = "client"
  /\ req.pc = "attempt"
  /\ LET a == Attempt(config, session, health_status, host_index, net, req.op)
         r == [req EXCEPT !.attempt = @ + 1, !.last = a.met, !.sent = @ + a.sent,
                          !.last_exception = IF a.returns THEN @ ELSE a.exception]
     IN /\ host_index' = a.index
        /\ health_status' = a.health
        /\ IF a.returns
             THEN /\ req' = [r EXCEPT !.pc = "idle"]
                  /\ ret' = Returns(req.op, a.response)
             ELSE IF r.attempt >= config.max_retries
               THEN /\ req' = [r EXCEPT !.pc = "idle"]
                    /\ ret' = Catches(req.op)
               ELSE /\ req' = [r EXCEPT !.slept = @ + 1]
                    /\ UNCHANGED ret
  /\ ClientFrame
  /\ UNCHANGED <<steps, session, net>>

\* a host goes down, comes back, or starts to answer otherwise
NetChange(h, st) ==
  /\ target = "client"
  /\ steps < ClientSteps
  /\ steps' = steps + 1
  /\ h \in DOMAIN net
  /\ net[h] # st
  /\ net' = [net EXCEPT ![h] = st]
  /\ req' = IF req.pc = "attempt" THEN [req EXCEPT !.steady = FALSE] ELSE req
  /\ ClientFrame
  /\ UNCHANGED <<ret, session, health_status, host_index>>

ClientNext ==
  \/ ClientConnect
  \/ ClientClose
  \/ \E op \in ClientOps : ClientCall(op)
  \/ ClientAttempt
  \/ \E h \in 1..MaxHosts, st \in NetStates : NetChange(h, st)

ClientSpec == ClientInit /\ [][ClientNext]_vars

\* Every request sent ends: with its response, with a connection error, or with
\* the session's total timeout; every backoff sleep ends.  So a _request that is
\* in its retry loop makes its next pass.
ClientFairness == WF_vars(ClientAttempt)

ClientLiveSpec == ClientInit /\ [][ClientNext]_vars /\ ClientFairness

\* ------------------------------- python_client.py: CacheGridClient.increment
\* Several clients increment one key of one server.  Every host answers: each
\* get and each set inside increment() is one request that succeeds, and the
\* clients' coroutines interleave at these two awaits.
NumClients == 2
\* clients that increment the same key

MaxDelta == 2
\* largest delta of an increment

IncrSteps == MaxSteps - 1
\* increment() calls in a run

IncrIdle == [pc |-> "idle", delta |-> 0, current |-> 0, result |-> None]

\* no cache object is constructed in a run of increment()
NoCaches ==
  /\ now = 0
  /\ steps = 0
  /\ ret = NoRet
  /\ max_size = 1
  /\ cache = <<>>
  /\ stats = CacheStats(max_size)
  /\ lru_running = FALSE
  /\ cleanup_task = "none"
  /\ orphans = NoTasks
  /\ engine_running = FALSE
  /\ start_time = None
  /\ stop_pc = "idle"
  /\ policy = "LRU"
  /\ storage = <<>>
  /\ tag_index = <<>>
  /\ pol = PolicyInit(policy)
  /\ metrics = [total_memory_bytes |-> 0, access_count |-> 0, hit_count |-> 0,
                miss_count |-> 0, eviction_count |-> 0]
  /\ pc = "idle"
  /\ pending = NoPending
  /\ hist = HistInit

\* the key is absent or holds an integer; the clients are connected
IncrInit ==
  /\ target = "increment"
  /\ NoCaches
  /\ config = [hosts |-> <<1>>, max_retries |-> 1]
  /\ session = TRUE
  /\ health_status = <<TRUE>>
  /\ host_index = 0
  /\ net = <<"ok">>
  /\ req = NoReq
  /\ server \in {None, Some(0), Some(1)}
  /\ incr = [c \in 1..NumClients |-> IncrIdle]
  /\ expected = IF server = None THEN 0 ELSE server[1]

IncrFrame ==
  UNCHANGED <<target, now, engineVars, storageVars, hist, config, session,
              health_status, host_index, net, req>>

\* increment(key, delta) is called and awaits self.get(key)
IncrCall(c, delta) ==
  /\ target = "increment"
  /\ incr[c].pc = "idle"
  /\ steps < IncrSteps
  /\ steps' = steps + 1
  /\ incr' = [incr EXCEPT ![c] = [IncrIdle EXCEPT !.pc = "get", !.delta = delta]]
  /\ IncrFrame
  /\ UNCHANGED <<ret, server, expected>>

\* current = await self.get(key); None (absent key) counts as 0
IncrGet(c) ==
  /\ target = "increment"
  /\ incr[c].pc = "get"
  /\ incr' = [incr EXCEPT ![c].pc = "set",
                          ![c].current = IF server = None THEN 0 ELSE server[1]]
  /\ IncrFrame
  /\ UNCHANGED <<steps, ret, server, expected>>

\* new_value = int(current) + delta; await self.set(key, new_value); return it
IncrSet(c) ==
  /\ target = "increment"
  /\ incr[c].pc = "set"
  /\ LET new_value == incr[c].current + incr[c].delta
     IN /\ server' = Some(new_value)
        /\ incr' = [incr EXCEPT ![c].pc = "idle", ![c].result = Some(new_value)]
        /\ ret' = Ret("increment", "a", new_value, TRUE, FALSE)
  /\ expected' = expected + incr[c].delta
  /\ IncrFrame
  /\ UNCHANGED steps

IncrNext ==
  \/ \E c \in 1..NumClients, delta \in 1..MaxDelta : IncrCall(c, delta)
  \/ \E c \in 1..NumClients : IncrGet(c)
  \/ \E c \in 1..NumClients : IncrSet(c)

IncrSpec == IncrInit /\ [][IncrNext]_vars

\* ------------------------------------------------------------ properties
StoredKeys == IF target = "engine" THEN CacheKeys(cache) ELSE DOMAIN storage
EntryCount == Cardinality(StoredKeys)
Evictions == IF target = "engine" THEN stats.evictions ELSE metrics.eviction_count
Hits == IF target = "engine" THEN stats.hits ELSE metrics.hit_count
Misses == IF target = "engine" THEN stats.misses ELSE metrics.miss_count

\* the last set(k, .) returned true and nothing but gets of k and operations on
\* other keys are recorded since
LastSet(k) == hist.written[k].st = "set" /\ hist.written[k].ok

\* the ttl given to the last set(k, .) has not elapsed
Fresh(k) == hist.written[k].ttl = None
            \/ now <= hist.written[k].at + hist.written[k].ttl[1]

\* this step is the return of a cache operation op
Returned(op) == hist'.calls = hist.calls + 1 /\ ret'.op = op

\* C1 as claimed: a get(k) that follows a successful set(k, v), with no set(k, .),
\* delete(k) or expiry of k in between, returns v whatever was done to other keys
\* (clear() is read as a delete of every key).
C1_GetAfterSet_AnyOtherOps ==
  (ret.op = "get" /\ ret.err = "" /\ LastSet(ret.key) /\ Fresh(ret.key)
     /\ hist.written[ret.key].dropped \notin {"clear", "expired"})
    => ret.val = hist.written[ret.key].val

\* C1 amended: ... with no set(k, .), delete(k), expiry of k, clear() or eviction of
\* k in between, get(k) hits and returns v.
C1_GetAfterSet ==
  (ret.op = "get" /\ ret.err = "" /\ LastSet(ret.key) /\ Fresh(ret.key)
     /\ hist.written[ret.key].dropped = "")
    => ret.hit /\ ret.val = hist.written[ret.key].val

\* C1 witness: a get returned the value of an earlier set while a second key is cached
C1_Witness ==
  /\ ret.op = "get" /\ ret.hit /\ ret.val = Half
  /\ LastSet(ret.key) /\ hist.written[ret.key].dropped = ""
  /\ EntryCount = 2

\* C2: after delete(k) and until the next set(k, .), get(k) misses and delete(k)
\* returns false; delete(k) returns true iff k was stored, and k is absent after it.
C2_Step ==
  /\ Returned("delete") =>
       /\ ret'.ok = (ret'.key \in StoredKeys)
       /\ ret'.key \notin StoredKeys'
       /\ hist.written[ret'.key].st = "del" => ~ret'.ok
  /\ (Returned("get") /\ hist.written[ret'.key].st = "del") =>
       ~ret'.hit /\ ret'.val = NoneVal

C2_DeleteThenMiss == [][C2_Step]_vars

\* C2 witness: delete(k) returned true and the get(k) after it missed
C2_Witness ==
  /\ ret.op = "get" /\ ret.err = "" /\ ~ret.hit
  /\ hist.written[ret.key].st = "del" /\ hist.written[ret.key].ok

\* C3: a get(k) later than t + ttl, for the entry set(k, v, ttl) stored at t, misses,
\* whether or not the expirer removed the entry before.
C3_Step ==
  (/\ Returned("get")
   /\ LastSet(ret'.key)
   /\ hist.written[ret'.key].ttl # None
   /\ now > hist.written[ret'.key].at + hist.written[ret'.key].ttl[1])
    => ~ret'.hit /\ ret'.val = NoneVal

C3_ExpiredGetMisses == [][C3_Step]_vars

\* C3 witness: a get found the entry past its ttl, still cached (no expirer pass, no
\* eviction, no clear took it), and missed
C3_Witness ==
  /\ ret.op = "get" /\ ret.err = "" /\ ~ret.hit
  /\ LastSet(ret.key) /\ hist.written[ret.key].dropped = ""
  /\ hist.written[ret.key].ttl # None /\ ~Fresh(ret.key)
  /\ ret.key \notin StoredKeys

\* C4: AdvancedStorage never holds more than max_size entries, and
\* total_memory_bytes never exceeds max_memory_bytes, under any policy.
C4_StorageBounds ==
  target = "storage" =>
    /\ Cardinality(DOMAIN storage) <= max_size
    /\ metrics.total_memory_bytes <= max_memory_bytes

\* C4 witness: a set succeeded after an eviction, and the storage is full
C4_Witness ==
  /\ target = "storage" /\ pc = "idle"
  /\ ret.op = "set" /\ ret.ok
  /\ metrics.eviction_count >= 1
  /\ Cardinality(DOMAIN storage) = max_size
  /\ metrics.total_memory_bytes > Half

\* C5: the LRUCache never holds more than max_size entries (max_size >= 1).
C5_CacheBound == target = "engine" => Len(cache) <= max_size

\* C5 witness: a cache of two entries, full, after an eviction
C5_Witness ==
  /\ target = "engine"
  /\ max_size = 2
  /\ Len(cache) = max_size
  /\ stats.evictions >= 1

\* C6: hits + misses is the number of get lookups made, in both caches.
C6_HitsPlusMisses ==
  /\ Hits + Misses = hist.gets
  /\ target = "storage" => metrics.access_count = hist.gets

\* C6 witness: two lookups, a hit and a miss
C6_Witness ==
  /\ hist.gets = 2
  /\ Hits = 1 /\ Misses = 1

Max0(n) == IF n > 0 THEN n ELSE 0

\* C7 as claimed: evictions >= max(0, inserts - maxEntries).
C7_EvictionsVsInserts == Evictions >= Max0(hist.inserts - max_size)

\* C7 amended: evictions >= max(0, inserts - removed - maxEntries), where removed
\* counts the entries that delete, clear and expiry took out.
C7_EvictionsVsNetInserts == Evictions >= Max0(hist.inserts - hist.removed - max_size)

\* C7 witness: inserts beyond the capacity, one of them made up for by a delete and
\* the others by evictions
C7_Witness ==
  /\ hist.removed >= 1
  /\ Evictions >= 1
  /\ Evictions = hist.inserts - hist.removed - max_size

\* C8: under LRU each entry a set of a new key evicts from a cache that holds
\* entries is the stored key whose last successful get or set is the oldest.
C8_Step ==
  /\ (target = "engine" /\ Returned("set") /\ ret'.key \notin CacheKeys(cache)
        /\ Len(cache) >= max_size)
       => CacheKeys(cache) \ CacheKeys(cache') = {Head(hist.recency)}
  /\ (target = "storage" /\ policy = "LRU" /\ pc = "set"
        /\ pending.key \notin DOMAIN hist.snap[1].storage
        /\ DOMAIN storage # {}
        /\ metrics'.eviction_count # metrics.eviction_count)
       => LET live == SelectKeys(hist.recency, DOMAIN storage)
          IN /\ live # <<>>
             /\ DOMAIN storage \ DOMAIN storage' = {Head(live)}

C8_LRUVictim == [][C8_Step]_vars

\* C9, for entries that fit in max_memory_bytes and keys that are not empty: under
\* LRU a set of a new key into a cache holding max_size entries evicts exactly one
\* entry: the eviction counter moves by one, the set succeeds, the cache stays full.
C9_Step ==
  /\ (target = "engine" /\ Returned("set") /\ ret'.key \notin CacheKeys(cache)
        /\ Len(cache) = max_size)
       => /\ stats'.evictions = stats.evictions + 1
          /\ Len(cache') = max_size
  /\ (target = "storage" /\ policy = "LRU" /\ pc = "set"
        /\ LET was == hist.snap[1]
           IN /\ pending.key \notin DOMAIN was.storage
              /\ Cardinality(DOMAIN was.storage) = max_size
              /\ was.metrics.total_memory_bytes + pending.size_bytes <= max_memory_bytes
              /\ pending.key # "" /\ hist.written[""].st = "none")
       => /\ metrics'.eviction_count <= hist.snap[1].metrics.eviction_count + 1
          /\ pc' = "idle" =>
               /\ ret'.ok
               /\ metrics'.eviction_count = hist.snap[1].metrics.eviction_count + 1
               /\ Cardinality(DOMAIN storage') = max_size

C9_EvictsExactlyOne == [][C9_Step]_vars

\* C10: a set on AdvancedStorage that is refused, for a key that was not stored,
\* leaves the entries, the tag index, the byte total and the eviction counter as
\* they were at the call.
C10_Step ==
  (target = "storage" /\ pc = "set" /\ pc' = "idle" /\ ~ret'.ok
     /\ pending.key \notin DOMAIN hist.snap[1].storage)
    => /\ storage' = hist.snap[1].storage
       /\ tag_index' = hist.snap[1].tag_index
       /\ metrics'.total_memory_bytes = hist.snap[1].metrics.total_memory_bytes
       /\ metrics'.eviction_count = hist.snap[1].metrics.eviction_count

C10_RefusedSetNoChange == [][C10_Step]_vars

\* a get(k) that directly follows a successful set(k, v), within the ttl, returns v
C11_GetStep ==
  (Returned("get") /\ ret.op = "set" /\ ret.ok /\ ret.key = ret'.key
     /\ LastSet(ret.key) /\ Fresh(ret.key) /\ hist.written[ret.key].dropped = "")
    => ret'.hit /\ ret'.val = ret.val

\* C11 as claimed: a set(k, v2) on a stored key k succeeds, leaves the stored keys
\* as they were (k counted once, no other key removed) and stores v2, which the
\* next get(k) returns; for any cache contents and capacity.
C11_AnyStep ==
  /\ (target = "engine" /\ Returned("set") /\ ret'.key \in CacheKeys(cache))
       => /\ Len(cache') = Len(cache)
          /\ CacheKeys(cache') = CacheKeys(cache)
          /\ cache'[IndexOf(cache', ret'.key)].value = ret'.val
  /\ (target = "storage" /\ pc = "set" /\ pc' = "idle"
        /\ pending.key \in DOMAIN hist.snap[1].storage)
       => /\ ret'.ok
          /\ DOMAIN storage' = DOMAIN hist.snap[1].storage
          /\ storage'[pending.key].value = pending.value
  /\ C11_GetStep

C11_ReplaceAnyCapacity == [][C11_AnyStep]_vars

\* C11 amended: the same, in AdvancedStorage for a new entry that fits in
\* max_memory_bytes beside the other stored entries.
C11_Step ==
  /\ (target = "engine" /\ Returned("set") /\ ret'.key \in CacheKeys(cache))
       => /\ Len(cache') = Len(cache)
          /\ CacheKeys(cache') = CacheKeys(cache)
          /\ cache'[IndexOf(cache', ret'.key)].value = ret'.val
  /\ (target = "storage" /\ pc = "set" /\ pc' = "idle"
        /\ LET was == hist.snap[1]
           IN /\ pending.key \in DOMAIN was.storage
              /\ was.metrics.total_memory_bytes - was.storage[pending.key].size_bytes
                   + pending.size_bytes <= max_memory_bytes)
       => /\ ret'.ok
          /\ DOMAIN storage' = DOMAIN hist.snap[1].storage
          /\ storage'[pending.key].value = pending.value
  /\ C11_GetStep

C11_Replace == [][C11_Step]_vars

\* C11 witness: k was set twice beside another stored key, and the get(k) that
\* followed returned the second value
C11_Witness ==
  /\ ret.op = "get" /\ ret.hit /\ ret.val = Half
  /\ LastSet(ret.key) /\ hist.written[ret.key].val = Half
  /\ hist.inserts = 2 /\ hist.removed = 0 /\ Evictions = 0
  /\ hist.calls = 4
  /\ EntryCount = 2

\* C12: in AdvancedStorage total_memory_bytes is the sum of size_bytes over the
\* stored entries, in every state (also inside a set).
C12_BytesAreSum ==
  target = "storage" =>
    metrics.total_memory_bytes
      = SumSet([k \in DOMAIN storage |-> storage[k].size_bytes], DOMAIN storage)

\* C12 witness: a set was refused after an eviction, and entries are stored
C12_Witness ==
  /\ target = "storage" /\ pc = "idle"
  /\ ret.op = "set" /\ ~ret.ok
  /\ metrics.eviction_count >= 1
  /\ DOMAIN storage # {}
  /\ metrics.total_memory_bytes > 0

\* C13: in AdvancedStorage k is in tag_index[t] iff k is stored and t is one of its
\* tags, and no tag has an empty bucket, in every state (also inside a set).
C13_TagIndexIsInverse ==
  target = "storage" =>
    /\ \A t \in DOMAIN tag_index :
         /\ tag_index[t] # {}
         /\ \A k \in tag_index[t] :
              k \in DOMAIN storage /\ t \in Range(storage[k].tags)
    /\ \A k \in DOMAIN storage : \A t \in Range(storage[k].tags) :
         t \in DOMAIN tag_index /\ k \in tag_index[t]

\* C13 witness: a tagged and an untagged entry are stored after an entry was removed
C13_Witness ==
  /\ target = "storage" /\ pc = "idle"
  /\ Cardinality(DOMAIN storage) = 2
  /\ "t" \in DOMAIN tag_index
  /\ Cardinality(tag_index["t"]) = 1
  /\ hist.removed >= 1

\* the keys the eviction policy tracks: the LRU order list, the LFU frequency map
TrackedKeys == CASE policy = "LRU" -> Range(pol.access_order)
                 [] policy = "LFU" -> DOMAIN pol.key_to_freq
                 [] OTHER -> {}

\* C14: between operations on AdvancedStorage every key the policy tracks is a key
\* of storage; after clear() the policy tracks no key.
C14_PolicyTracksStoredKeys ==
  (target = "storage" /\ pc = "idle") => TrackedKeys \subseteq DOMAIN storage

\* C15: whenever set's make-space loop asks the policy (LRU, LFU or TTL) for a
\* victim, the key it names is stored, and an eviction that is counted removes
\* that entry.
C15_Step ==
  (target = "storage" /\ pc = "set" /\ NeedsSpace(Store, max_size, pending))
    => LET sel == select_victim(policy, pol, storage, now)
       IN /\ sel.victim # None => sel.victim[1] \in DOMAIN storage
          /\ metrics'.eviction_count # metrics.eviction_count
               => /\ sel.victim # None
                  /\ sel.victim[1] \in DOMAIN storage
                  /\ DOMAIN storage' = DOMAIN storage \ {sel.victim[1]}

C15_VictimIsStored == [][C15_Step]_vars

\* expirer tasks that have not ended
AliveTasks == (IF cleanup_task \in {"new", "sleeping", "cancelled"} THEN 1 ELSE 0)
              + orphans.new + orphans.sleeping

\* this step is a call of CacheEngine.start / CacheEngine.stop that returns
StartStep == target = "engine" /\ ret'.op = "start" /\ steps' = steps + 1 /\ now' = now
StopReturns == target = "engine" /\ ret'.op = "stop" /\ now' = now
               /\ (steps' = steps + 1 \/ stop_pc = "await")

\* C16: start() on an engine that is started leaves one expirer task alive and the
\* recorded start time as it was.
C16_Step ==
  (StartStep /\ engine_running)
    => /\ AliveTasks' = 1
       /\ start_time' = start_time

C16_StartIdempotent == [][C16_Step]_vars

\* C17: when stop() returns no expirer task is alive; a stop() on a stopped engine
\* changes nothing; and from stop() to the next start() no entry is removed in the
\* background.
C17_Step ==
  /\ StopReturns => AliveTasks' = 0
  /\ (StopReturns /\ ~engine_running /\ stop_pc = "idle")
       => UNCHANGED <<cache, stats, lru_running, cleanup_task, orphans,
                      engine_running, start_time>>
  /\ (target = "engine" /\ ~lru_running /\ hist'.calls = hist.calls)
       => cache' = cache

C17_StopIdempotent == [][C17_Step]_vars

\* this step is a call of one of CacheEngine's get, set, delete, clear, stats
FacadeOps == {"get", "set", "delete", "clear", "stats"}
FacadeStep ==
  /\ target = "engine"
  /\ now' = now
  /\ ret'.op \in FacadeOps
  /\ ret' # ret \/ steps' = steps + 1

\* C18: a get, set, delete, clear or stats on an engine that is not running fails
\* with RuntimeError('Cache engine not started') and leaves the cache and its
\* statistics as they were; on a running engine none of them fails.
C18_Step ==
  FacadeStep =>
    IF engine_running THEN ret'.err = ""
    ELSE ret'.err = "RuntimeError" /\ UNCHANGED <<cache, stats>>

C18_NotRunning == [][C18_Step]_vars

\* C18 witness: after stop(), a get on a filled cache failed
C18_Witness ==
  /\ target = "engine"
  /\ ~engine_running /\ start_time # None
  /\ cache # <<>>
  /\ ret.op = "get" /\ ret.err = "RuntimeError"

\* this step is a batch get, a batch set or a key listing made over HTTP
BatchStep ==
  /\ target = "engine"
  /\ now' = now
  /\ steps' = steps + 1
  /\ ret'.op \in {"batch_get", "batch_set", "list_keys"}

\* C19: on an engine that is not running the batch get, the batch set and the key
\* listing fail with RuntimeError('Cache engine not started'), return no data and
\* leave the cache and its statistics as they were.
C19_Step ==
  (BatchStep /\ ~engine_running)
    => /\ ret'.err = "RuntimeError"
       /\ ret'.report = None
       /\ UNCHANGED <<cache, stats>>

C19_BatchNotRunning == [][C19_Step]_vars

\* C20: health_check() on a started engine returns a report: status healthy, the
\* uptime, the entry count, the hit ratio, the memory in MB and the time of the
\* check.
C20_Step ==
  (target = "engine" /\ engine_running /\ now' = now /\ steps' = steps + 1
     /\ ret'.op = "health")
    => /\ ret'.err = ""
       /\ ret'.report # None
       /\ ret'.report[1].status = "healthy"
       /\ ret'.report[1].cache_size = Len(cache)
       /\ ret'.report[1].last_check = now
       /\ {"uptime_seconds", "hit_ratio", "memory_usage_mb"}
            \subseteq DOMAIN ret'.report[1]

C20_HealthOnStarted == [][C20_Step]_vars

\* this step is a call of CacheEngine.health_check
HealthStep ==
  /\ target = "engine"
  /\ now' = now
  /\ ret'.op = "health"
  /\ ret' # ret \/ steps' = steps + 1

\* C21: health_check() on an engine that is not running (never started, or
\* stopped) does not fail: it returns a report whose status is stopped.
C21_Step ==
  (HealthStep /\ ~engine_running)
    => /\ ret'.err = ""
       /\ ret'.report # None
       /\ ret'.report[1].status = "stopped"

C21_HealthOnStopped == [][C21_Step]_vars

\* C22: the dict stats() returns on a running engine holds a hit ratio, equal to
\* hits / (hits + misses) and to 0.0 when no lookup was made.
C22_Step ==
  (target = "engine" /\ engine_running /\ now' = now /\ steps' = steps + 1
     /\ ret'.op = "stats")
    => /\ ret'.err = ""
       /\ ret'.report # None
       /\ "hit_ratio" \in DOMAIN ret'.report[1]
       /\ ret'.report[1].hit_ratio = hit_ratio(stats')

C22_StatsHitRatio == [][C22_Step]_vars

\* what stats would report now: LRUCache.get_stats / AdvancedStorage.get_stats
Reported == IF target = "engine" THEN get_stats(cache, stats).report
            ELSE StorageGetStats(policy, Store, max_size)

\* the keys an immediate get would hit
Gettable ==
  {k \in Keys : IF target = "engine" THEN LRUGet(cache, stats, k, now).hit
                ELSE StorageGetOp(policy, Store, k, now).hit}

\* the stored entries whose ttl has elapsed and that nothing has removed yet
ExpiredStored ==
  {k \in StoredKeys :
     is_expired(IF target = "engine" THEN cache[IndexOf(cache, k)] ELSE storage[k], now)}

\* the bytes the cache accounts for the stored entry of k
EntryBytes(k) ==
  IF target = "engine"
    THEN KeyLen(k) + ValueLen(cache[IndexOf(cache, k)].value) + 100
    ELSE storage[k].size_bytes

\* no operation is inside the cache
Quiescent == target = "storage" => pc = "idle"

\* C23 as claimed: between operations the entry count stats reports is the number
\* of keys an immediate get would return a value for.
C23_CountIsGettable == Quiescent => Reported.current_size = Cardinality(Gettable)

\* C23 amended: the entry count stats reports is the number of stored entries:
\* the keys an immediate get would hit and the entries whose ttl has elapsed and
\* that no get or expirer pass has removed yet; the byte total it reports is the
\* sum over these stored entries.
C23_Accounting ==
  Quiescent =>
    /\ Gettable \cap ExpiredStored = {}
    /\ Gettable \cup ExpiredStored = StoredKeys
    /\ Reported.current_size = Cardinality(Gettable) + Cardinality(ExpiredStored)
    /\ Reported.memory_usage_bytes
         = SumSet([k \in StoredKeys |-> EntryBytes(k)], StoredKeys)

\* C23 witness: stats() returned an entry count of 1 while the one stored entry is
\* past its ttl, so that a get of it would miss
C23_Witness ==
  /\ target = "engine"
  /\ ret.op = "stats" /\ ret.report # None
  /\ ret.report[1].current_size = 1
  /\ Gettable = {}
  /\ Cardinality(ExpiredStored) = 1

\* the dict a sequence of (key, value) pairs stands for, and its keys in order
DictOf(items) ==
  [k \in {items[i][1] : i \in 1..Len(items)} |->
     items[CHOOSE i \in 1..Len(items) : items[i][1] = k][2]]
KeysOf(items) == [i \in 1..Len(items) |-> items[i][1]]

\* C24: a set_multi(M) without ttl of at most max_size items returns |M|, and a
\* get_multi that follows it, asked for the keys of M and for a key that is not
\* cached, returns exactly M.
C24_Step ==
  \A items \in BatchItems :
    (batch_set(items, None) /\ Len(items) <= max_size)
      => /\ ret'.val = Len(items)
         /\ \A absent \in Keys \ CacheKeys(cache') :
              get_multi(cache', stats', Append(KeysOf(items), absent), now').result
                = DictOf(items)

C24_BatchRoundTrip == [][C24_Step]_vars

\* ------------------------------------------------- the engine, scheduled
\* The event loop runs every task that is ready: a created expirer starts, its
\* sleep ends, a cancelled expirer ends, and stop() resumes once its task ended.
LiveInit == Init /\ target = "engine"

LiveNext == Tick \/ NextEngine

Fairness ==
  /\ WF_vars(ExpirerBegin)
  /\ WF_vars(ExpirerTick)
  /\ WF_vars(ExpirerCancelled)
  /\ WF_vars(EngineStopReturn)

LiveSpec == LiveInit /\ [][LiveNext]_vars /\ Fairness

\* the entry cached under k is past its ttl, on an engine that is running
ExpiredOnRunning(k) ==
  /\ target = "engine"
  /\ engine_running
  /\ k \in ExpiredStored

\* C25: on an engine that stays running, an entry whose ttl has elapsed is
\* eventually out of the cache, also when no caller touches the cache again.
C25_ExpiredEventuallyRemoved ==
  \A k \in Keys : ExpiredOnRunning(k) ~> (~engine_running \/ k \notin ExpiredStored)

\* C25 witness: the expirer removed an expired entry that no get had found, on an
\* engine that is running
C25_Witness ==
  /\ target = "engine"
  /\ engine_running /\ lru_running
  /\ stats.expired_items = 1
  /\ stats.misses = 0
  /\ cache = <<>>
  /\ \E k \in Keys : hist.written[k].dropped = "expired"

\* C26: stop() cancels the expirer where it is suspended, before its first run or
\* in its sleep (a scan has no suspension point, so none is cut short); the stop()
\* then returns, and at its return the task has ended, stats.current_size is the
\* number of cached entries and no key is cached twice.
C26_Step ==
  StopReturns
    => /\ cleanup_task' \in {"none", "done"}
       /\ stats'.current_size = Len(cache')
       /\ Cardinality(CacheKeys(cache')) = Len(cache')

C26_CancelIsClean ==
  /\ [][C26_Step]_vars
  /\ (stop_pc = "await") ~> (stop_pc = "idle" /\ ~engine_running)

\* C26 witness: stop() returned after it cancelled an expirer that had made a scan
\* and gone back to sleep
C26_Witness ==
  /\ target = "engine"
  /\ ret.op = "stop" /\ ~engine_running /\ stop_pc = "idle"
  /\ cleanup_task = "done"
  /\ stats.expired_items = 1 /\ stats.misses = 0

\* the keys some task has set, and: nothing but sets was ever called on the cache
WrittenKeys == {k \in Keys : LastSet(k)}
OnlySets == hist.calls = stats.sets

\* C27: tasks set keys concurrently in an LRUCache that was empty; each set is one
\* uninterrupted run under the lock, so an interleaving is an order of the sets.
\* When the keys set are at most max_size and none has outlived a ttl, then in
\* every order each key is cached with the value of the last set made on it and
\* the entry count is the number of keys set.
C27_ConcurrentWriters ==
  (/\ target = "engine"
   /\ OnlySets
   /\ Cardinality(WrittenKeys) <= max_size
   /\ \A k \in WrittenKeys : Fresh(k))
    => /\ CacheKeys(cache) = WrittenKeys
       /\ \A k \in WrittenKeys :
            cache[IndexOf(cache, k)].value = hist.written[k].val
       /\ stats.current_size = Cardinality(WrittenKeys)
       /\ Len(cache) = Cardinality(WrittenKeys)

\* C27 witness: three sets on two keys, made at different times, filled a cache of
\* two entries
C27_Witness ==
  /\ target = "engine"
  /\ OnlySets /\ stats.sets = 3
  /\ max_size = 2
  /\ Cardinality(WrittenKeys) = 2
  /\ Len(cache) = 2
  /\ stats.evictions = 0
  /\ cache[1].created_at < cache[2].created_at

\* the eviction policy knows the stored key k: LRU has it in access_order, LFU in
\* key_to_freq, TTL has a heap entry for it when it carries a ttl
Registered(k) ==
  CASE policy = "LRU" -> k \in Range(pol.access_order)
    [] policy = "LFU" -> k \in DOMAIN pol.key_to_freq
    [] OTHER -> storage[k].ttl # None
                  => \E i \in 1..Len(pol.expiry_heap) : pol.expiry_heap[i][2] = k

\* C28: get, set, delete and clear of AdvancedStorage run one at a time under the
\* lock, and whenever the lock is free (what the next caller finds) every stored
\* entry has its tag-index entries, its bytes in the total and its registration in
\* the policy, and the tag index and the policy name stored keys only.
C28_AtomicAndWhole ==
  (target = "storage" /\ pc = "idle")
    => /\ C12_BytesAreSum
       /\ C13_TagIndexIsInverse
       /\ \A k \in DOMAIN storage : Registered(k)
       /\ TrackedKeys \subseteq DOMAIN storage

\* the arguments of a set are invalid: an empty key, or a ttl that is not positive
InvalidSet(k, ttl) == k = "" \/ (ttl # None /\ ttl[1] <= 0)

\* C29: a set with an empty key or with a ttl <= 0, on the LRUCache (through
\* CacheEngine) or on AdvancedStorage, is refused and stores nothing: the cache is
\* as it was at the call.
C29_Step ==
  /\ (target = "engine" /\ Returned("set")
        /\ InvalidSet(ret'.key, hist'.written[ret'.key].ttl))
       => /\ ~ret'.ok
          /\ UNCHANGED <<cache, stats>>
  /\ (target = "storage" /\ pc = "set" /\ pc' = "idle"
        /\ InvalidSet(pending.key, pending.ttl))
       => /\ ~ret'.ok
          /\ storage' = hist.snap[1].storage
          /\ tag_index' = hist.snap[1].tag_index
          /\ metrics' = hist.snap[1].metrics

C29_InvalidSetRefused == [][C29_Step]_vars

\* this step ends a get, set or stats of the client
ClientReturns ==
  /\ target = "client"
  /\ req' # req
  /\ req'.pc = "idle"
  /\ req'.op \in ClientOps

\* what a client operation gives back when its request failed
Graceful(r) ==
  /\ r.err = ""
  /\ r.op = "get" => r.val = NoneVal
  /\ r.op = "set" => ~r.ok
  /\ r.op = "stats" => r.report = Some(EmptyDict)

\* C30: when every attempt of the request failed (no session, host unreachable,
\* timeout, or an HTTP status that is not 200), get returns None, set returns
\* False, stats returns {} and none of them raises.
C30_Step == (ClientReturns /\ req'.last # "ok") => Graceful(ret')

C30_FailsGracefully == [][C30_Step]_vars

\* the hosts that refuse the connection or let the request time out
Unreachable == {h \in DOMAIN net : net[h] \in {"refused", "timeout"}}

\* a get or set of a connected client ends while a host is reachable, the
\* others are down, and max_retries exceeds the number of hosts that are down
FailoverCase ==
  /\ ClientReturns
  /\ req'.op \in {"get", "set"}
  /\ req'.steady
  /\ session
  /\ Len(config.hosts) > 1
  /\ DOMAIN health_status = Range(config.hosts)
  /\ \E h \in DOMAIN net : net[h] = "ok"
  /\ \A h \in DOMAIN net : net[h] = "ok" \/ h \in Unreachable
  /\ config.max_retries > Cardinality(Unreachable)

\* a pass of the retry loop selects a host marked as failed
SelectsFailed ==
  /\ target = "client"
  /\ req.pc = "attempt"
  /\ req' # req
  /\ LET host == _get_healthy_host(config, health_status, host_index).host
     IN host \in DOMAIN health_status /\ ~health_status[host]

\* C31: a connected client with several hosts, one of them reachable and fewer
\* hosts down than max_retries, succeeds in its set/get; and a host marked as
\* failed is selected only when no host is marked healthy.
C31_Step ==
  /\ FailoverCase => req'.last = "ok" /\ ret'.ok
  /\ SelectsFailed => \A h \in DOMAIN health_status : ~health_status[h]

C31_HostFailover == [][C31_Step]_vars

\* no increment() is in progress
IncrQuiet == target = "increment" /\ \A c \in DOMAIN incr : incr[c].pc = "idle"

\* C32: increment is atomic: once the increments of all clients have returned,
\* the stored value is the initial value plus the sum of all deltas.
C32_NoLostUpdate ==
  IncrQuiet => expected = IF server = None THEN 0 ELSE server[1]

\* the stored keys whose entry is expired now
ExpiredNow == {k \in CacheKeys(cache) : is_expired(cache[IndexOf(cache, k)], now)}

\* this step is a lookup (get, batch get) or a scan of the expirer: the two
\* places that remove an entry because it is expired
LookupOrScan == hist'.gets > hist.gets \/ (steps' = steps /\ now' = now)

\* C33: stats.expired_items counts each entry removed because it was expired,
\* by a get or by the background expirer, exactly once, and nothing else.
C33_Step ==
  target = "engine" =>
    stats'.expired_items =
      stats.expired_items
        + (IF LookupOrScan THEN Cardinality(ExpiredNow \ CacheKeys(cache')) ELSE 0)

C33_ExpiredCountedOnce == [][C33_Step]_vars

\* a get found its entry expired: a miss, and the one expired entry is counted
C33_Witness ==
  /\ target = "engine"
  /\ ret.op = "get" /\ ~ret.hit /\ ret.err = ""
  /\ hist.written[ret.key].st = "set" /\ hist.written[ret.key].ttl # None
  /\ ret.key \notin CacheKeys(cache)
  /\ stats.expired_items = 1 /\ stats.misses = 1 /\ stats.evictions = 0

\* one turn of set's make-space loop that evicted an entry
EvictionTurn ==
  /\ target = "storage"
  /\ pc = "set"
  /\ metrics'.eviction_count > metrics.eviction_count

\* C34: under the TTL policy the key select_victim returns is stored and its
\* entry is expired (now > created_at + ttl); an entry without a TTL or not yet
\* expired is never evicted.
C34_Step ==
  (EvictionTurn /\ policy = "TTL") =>
    LET victim == select_victim(policy, pol, storage, now).victim
    IN /\ victim # None
       /\ victim[1] \in DOMAIN storage
       /\ is_expired(storage[victim[1]], now)
       /\ \A k \in DOMAIN storage \ DOMAIN storage' : is_expired(storage[k], now)

C34_TTLVictimExpired == [][C34_Step]_vars

\* the frequency of a stored key: 1 at its insertion plus one per hit since
Frequency(k) == storage[k].access_count + 1

\* an LFU storage that holds an entry and was driven by set/get/delete only
LFUCase ==
  /\ target = "storage"
  /\ policy = "LFU"
  /\ hist.clears = 0
  /\ storage # <<>>

\* C35: under LFU, select_victim on a non-empty storage returns a stored key of
\* minimal frequency among the stored keys.
C35_LFUVictimMinimal ==
  LFUCase =>
    LET victim == select_victim(policy, pol, storage, now).victim
    IN /\ victim # None
       /\ victim[1] \in DOMAIN storage
       /\ \A k \in DOMAIN storage : Frequency(victim[1]) <= Frequency(k)

\* the stored keys of minimal frequency
LeastFrequent ==
  {k \in DOMAIN storage : \A j \in DOMAIN storage : Frequency(k) <= Frequency(j)}

\* C36: under LFU, when select_victim returns a stored key of minimal frequency,
\* it is the one inserted earliest among the stored keys tied at that frequency.
C36_LFUTieFIFO ==
  LFUCase =>
    LET victim == select_victim(policy, pol, storage, now).victim
    IN (victim # None /\ victim[1] \in LeastFrequent)
         => victim[1] = Head(SelectKeys(hist.inserted, LeastFrequent))

\* the entry of a get hit after the hit: read at time now, nothing else changed
Read(item) == [item EXCEPT !.last_accessed = now, !.access_count = @ + 1]

\* what a get(k) that hit leaves behind in the engine's cache
EngineHitFrame(k) ==
  LET item == cache[IndexOf(cache, k)]
      after == cache'[Len(cache')]
  IN /\ after = Read(item)
     /\ after.value = item.value /\ after.created_at = item.created_at
     /\ after.ttl = item.ttl
     /\ SubSeq(cache', 1, Len(cache') - 1) = SelectSeq(cache, LAMBDA e : e.key # k)
     /\ stats' = [stats EXCEPT !.hits = @ + 1]
     /\ UNCHANGED <<max_size, lru_running, cleanup_task, orphans, engine_running,
                    start_time, stop_pc>>

\* the same for AdvancedStorage, whose lookup counter access_count moves by n
StorageHitFrame(k, n) ==
  /\ DOMAIN storage' = DOMAIN storage
  /\ storage'[k] = Read(storage[k])
  /\ storage'[k].value = storage[k].value
  /\ storage'[k].created_at = storage[k].created_at
  /\ storage'[k].ttl = storage[k].ttl
  /\ \A j \in DOMAIN storage \ {k} : storage'[j] = storage[j]
  /\ tag_index' = tag_index
  /\ policy = "TTL" => pol' = pol
  /\ metrics' = [metrics EXCEPT !.hit_count = @ + 1, !.access_count = @ + n]

\* a get of a key that is not stored
AbsentFrame(n) ==
  IF target = "engine"
    THEN /\ cache' = cache
         /\ stats' = [stats EXCEPT !.misses = @ + 1]
    ELSE /\ UNCHANGED <<storage, tag_index, pol>>
         /\ metrics' = [metrics EXCEPT !.miss_count = @ + 1, !.access_count = @ + n]

GetFrame(n) ==
  /\ (Returned("get") /\ ret'.hit) =>
       IF target = "engine" THEN EngineHitFrame(ret'.key)
       ELSE StorageHitFrame(ret'.key, n)
  /\ (Returned("get") /\ ret'.err = "" /\ ret'.key \notin StoredKeys) => AbsentFrame(n)

\* C37 as claimed: a get hit changes only the entry's last_accessed and
\* access_count, its place in the policy's order and the hit counter; a get of an
\* absent key changes only the miss counter.
C37_GetFrame == [][GetFrame(0)]_vars

\* C37 amended: ... and, in AdvancedStorage, the lookup counter access_count, which
\* every get increments.
C37_GetFrameWithLookups == [][GetFrame(1)]_vars

\* C37 witness: an entry with a TTL was read after the clock moved: it was stored
\* at 0 and is still due at 1
C37_Witness ==
  /\ ret.op = "get" /\ ret.hit
  /\ ret.key \in StoredKeys
  /\ hist.written[ret.key].ttl = Some(1)
  /\ hist.written[ret.key].at = 0
  /\ now = 1
  /\ Hits = 1
  /\ IF target = "engine"
       THEN cache[IndexOf(cache, ret.key)].last_accessed = 1
            /\ cache[IndexOf(cache, ret.key)].created_at = 0
       ELSE storage[ret.key].last_accessed = 1 /\ storage[ret.key].created_at = 0

\* one turn of set's make-space loop after which the loop goes on
LoopTurn == target = "storage" /\ pc = "set" /\ pc' = "set"

\* C38: AdvancedStorage.set terminates: each turn of its make-space loop either
\* ends the loop (the set returns) or removes a stored entry, under each policy.
C38_Step ==
  LoopTurn => /\ DOMAIN storage' \subseteq DOMAIN storage
              /\ DOMAIN storage' # DOMAIN storage

C38_SetLoopProgress == [][C38_Step]_vars

\* a set under the TTL policy returns; at its call the key was new, the storage
\* held max_size entries with non-empty keys, one of them expired, and the bytes
\* of the new item fitted beside the stored ones
FullWithExpired ==
  /\ target = "storage" /\ policy = "TTL"
  /\ pc = "set" /\ pc' = "idle"
  /\ LET before == hist.snap[1]
     IN /\ pending.key \notin DOMAIN before.storage \cup {""}
        /\ "" \notin DOMAIN before.storage
        /\ Cardinality(DOMAIN before.storage) >= max_size
        /\ before.metrics.total_memory_bytes + pending.size_bytes <= max_memory_bytes
        /\ \E k \in DOMAIN before.storage : is_expired(before.storage[k], now)

\* C39: under the TTL policy a set of a new key into a full storage succeeds
\* whenever a stored entry is expired, also after select_victim returned none.
C39_Step == FullWithExpired => ret'.ok

C39_ExpiredMakesRoom == [][C39_Step]_vars

\* what holds of a _request at every moment: at most max_retries passes and
\* requests; after a 200 or a 404 it is over; a sleep follows every failed pass
\* but the last
RetryBudget ==
  /\ req.attempt <= config.max_retries
  /\ req.sent <= req.attempt
  /\ req.last \in {"ok", "http404"} => req.pc = "idle"
  /\ req.pc = "attempt" => req.slept = req.attempt
  /\ (req.pc = "idle" /\ req.attempt > 0) => req.slept = req.attempt - 1

\* C40: a client operation sends at most max_retries requests and terminates;
\* it sends nothing after a 200 or a 404, and it sleeps between attempts only,
\* never after the last one.
C40_RetriesBounded ==
  /\ [](target = "client" => RetryBudget)
  /\ (req.pc = "attempt") ~> (req.pc = "idle")

\* C40 witness: a get whose two attempts were both refused: two requests, one
\* sleep between them, and the operation returned
C40_Witness ==
  /\ target = "client"
  /\ config.max_retries = 2
  /\ req.op = "get" /\ req.pc = "idle"
  /\ req.attempt = 2 /\ req.sent = 2 /\ req.slept = 1
  /\ req.last = "refused"
  /\ ret.op = "get" /\ ~ret.hit

=============================================================================
